---- MODULE Spec2Model ----
(***************************************************************************)
(* Model of the PDF engine of paradise-pdf (src-tauri/src/lib.rs):         *)
(* chunk computation, split, merge, mix, rotation and page organisation,   *)
(* over an object store keyed by object number.                            *)
(***************************************************************************)
EXTENDS Integers, Sequences, FiniteSets, TLC

VARIABLES
    op,            \* the command being executed
    pc,            \* position inside the command
    build,         \* build profile: "debug" (overflow panics) or "release" (overflow wraps)
    mode,          \* SplitMode argument: [kind, n]
    page_count,    \* u32 page count handed to calculate_chunks
    chunk_ranges,  \* Vec<(u32, u32)> returned by calculate_chunks
    doc,           \* the document loaded by a single-document command
    doc0,          \* the file as it was before the command sequence (history)
    paths,         \* the documents stored at the input paths, in list order
    final_doc,     \* the destination document of merge and mix
    idx,           \* number of inputs / chunks already processed
    docs_pages,    \* mix: per input, its renumbered page ids
    dst_ids,       \* history: ids in the destination store before the last insertion
    src_ids,       \* history: renumbered ids of the source at the last insertion
    saved,         \* the document written to the output path
    saved_paths,   \* split: the part documents written so far
    rotations,     \* history: the rotation maps applied so far
    actions,       \* organise: the action list
    part_layout,   \* split: the object numbering extract_pages gives a part
    files,         \* what the file system and the parser make of each input path
    env,           \* what the file system makes of the output side of the command
    result,        \* the AppResult the command returned; <<>> while it runs
    log,           \* history: the side effects of the command, in order
    trailer,       \* protect: the trailer of the loaded document: [ID, Encrypt]
    data,          \* the bytes handed to find_start_xref
    offset,        \* what find_start_xref returned; <<>> while it runs
    reader,        \* the SeekingChain: [mmap, patch, pos]
    call           \* history: the last call on the reader, its argument and its result

vars == <<op, pc, build, mode, page_count, chunk_ranges, doc, doc0, paths, final_doc,
          idx, docs_pages, dst_ids, src_ids, saved, saved_paths, rotations, actions,
          part_layout, files, env, result, log, trailer, data, offset, reader, call>>

ioVars == <<files, env, result, log, trailer>>

repairVars == <<data, offset, reader, call>>

-----------------------------------------------------------------------------
(* Bounds of the model *)

MaxPages == 4
MaxN == 4
MaxDocPages == 2
MaxDocs == 2
MaxActions == 3
MaxRotations == 2
DepthLimit == 3
MaxBytes == 2
MaxBuf == 3
MaxCalls == 3

-----------------------------------------------------------------------------
(* u32 arithmetic.  A u32 is kept as two 16-bit limbs <<hi, lo>> so that    *)
(* values up to 2^32 - 1 and their wrap-around stay exact.                  *)

Base == 2^16

ToU32(k) == <<k \div Base, k % Base>>

FromU32(a) == a[1] * Base + a[2]

U32Zero == <<0, 0>>
U32One == <<0, 1>>
U32MaxValue == <<Base - 1, Base - 1>>

U32Add(a, b) ==
    LET lo == a[2] + b[2]
        hi == a[1] + b[1] + (lo \div Base)
    IN  [val |-> <<hi % Base, lo % Base>>, overflow |-> hi >= Base]

U32Sub(a, b) ==
    LET lo == a[2] - b[2]
        hi == a[1] - b[1] - (IF lo < 0 THEN 1 ELSE 0)
    IN  [val |-> <<(hi + Base) % Base, (lo + Base) % Base>>, overflow |-> hi < 0]

U32Lt(a, b) == a[1] < b[1] \/ (a[1] = b[1] /\ a[2] < b[2])
U32Leq(a, b) == a = b \/ U32Lt(a, b)
U32Min(a, b) == IF U32Leq(a, b) THEN a ELSE b
U32Max(a, b) == IF U32Leq(a, b) THEN b ELSE a

-----------------------------------------------------------------------------
(* calculate_chunks *)

Builds == {"debug", "release"}

EveryN(n) == [kind |-> "EveryN", n |-> n]
OnePerPage == [kind |-> "OnePerPage", n |-> U32Zero]

\* the while loop of the EveryN arm; an overflowing + or - panics in a debug
\* build and wraps in a release build.  The loop state is start alone (n and
\* page_count are fixed, ranges is only pushed to): once start takes a value
\* it had at the head of an earlier iteration the loop repeats for ever
RECURSIVE ChunkLoop(_, _, _, _, _)
ChunkLoop(start, n, pages, ranges, b) ==
    IF ~U32Leq(start, pages)
    THEN [panicked |-> FALSE, diverged |-> FALSE, ranges |-> ranges]
    ELSE IF \E i \in DOMAIN ranges : ranges[i][1] = start
    THEN [panicked |-> FALSE, diverged |-> TRUE, ranges |-> ranges]
    ELSE LET s1 == U32Add(start, n)
             s2 == U32Sub(s1.val, U32One)
         IN  IF b = "debug" /\ (s1.overflow \/ s2.overflow)
             THEN [panicked |-> TRUE, diverged |-> FALSE, ranges |-> ranges]
             ELSE LET end == U32Min(s2.val, pages)
                      nx == U32Add(end, U32One)
                  IN  IF b = "debug" /\ nx.overflow
                      THEN [panicked |-> TRUE, diverged |-> FALSE,
                            ranges |-> Append(ranges, <<start, end>>)]
                      ELSE ChunkLoop(nx.val, n, pages, Append(ranges, <<start, end>>), b)

calculate_chunks(m, pages, b) ==
    IF m.kind = "OnePerPage"
    THEN [panicked |-> FALSE, diverged |-> FALSE,
          ranges |-> [p \in 1..FromU32(pages) |-> <<ToU32(p), ToU32(p)>>]]
    ELSE ChunkLoop(U32One, U32Max(m.n, U32One), pages, <<>>, b)

-----------------------------------------------------------------------------
(* Object model: lopdf::Document as used by lib.rs.  An object id is its    *)
(* number; references hold numbers; Nil stands for an absent reference and  *)
(* <<>> for an absent Integer entry.  body stands for the rest of the       *)
(* object (its other entries, its stream bytes).  KidsArray tells whether   *)
(* the object has a Kids entry that is an array.                            *)

Nil == 0 - 1
None == <<>>
Some(x) == <<x>>

Range(s) == {s[i] : i \in DOMAIN s}

Obj(t, pg, kids, cnt, par, rot, con, b) ==
    [type |-> t, Pages |-> pg, Kids |-> kids, KidsArray |-> (t = "Pages"), Count |-> cnt,
     Parent |-> par, Rotate |-> rot, Contents |-> con, body |-> b]

CatalogObj(pg) == Obj("Catalog", pg, <<>>, None, Nil, None, Nil, 0)
PagesObj(kids, cnt, par) == Obj("Pages", Nil, kids, Some(cnt), par, None, Nil, 0)
PageObj(par, rot, con, b) == Obj("Page", Nil, <<>>, None, par, rot, con, b)
StreamObj(b) == Obj("Stream", Nil, <<>>, None, Nil, None, Nil, b)

\* Object::as_dict / as_dict_mut succeed on a Dictionary only
IsDict(o) == o.type # "Stream"

EmptyDoc == [objects |-> <<>>, max_id |-> 0, Root |-> Nil]

ToFun(pairs) == [i \in {p[1] : p \in pairs} |-> (CHOOSE p \in pairs : p[1] = i)[2]]

\* Document::new() at lib.rs:740
DocumentNew == EmptyDoc

-----------------------------------------------------------------------------
(* Input documents.  A layout fixes which object numbers the catalog, the   *)
(* page tree and the pages have in the file; pgs lists, per page, its body, *)
(* the body of its content stream and its Rotate entry.                     *)

Layouts == {"A", "B", "C", "S", "N", "D", "Z", "K"}

CatId(l, np) ==
    CASE l \in {"A", "N", "D", "Z", "K"} -> 1
      [] l = "B" -> 2 * np + 2
      [] l = "C" -> 2
      [] l = "S" -> 2 * np + 1

RootId(l, np) ==
    CASE l \in {"A", "N", "D", "Z", "K"} -> 2
      [] l = "B" -> 2 * np + 1
      [] l = "C" -> 1
      [] l = "S" -> 2 * np + 2

PageId(l, np, k) ==
    CASE l \in {"A", "D", "Z", "K"} -> 2 * k + 1
      [] l = "B" -> 2 * k - 1
      [] l = "C" -> 2 + np + k
      [] l = "S" -> np + k
      [] l = "N" -> 2 * k + 2

ContId(l, np, k) ==
    CASE l \in {"A", "D", "Z", "K"} -> 2 * k + 2
      [] l = "B" -> 2 * k
      [] l = "C" -> 2 + k
      [] l = "S" -> k
      [] l = "N" -> 2 * k + 3

InnerId == 3

PageIdSeq(l, np, from) == [j \in 1..(np - from + 1) |-> PageId(l, np, from + j - 1)]

\* l = "N": the first page sits under a nested Pages node; l = "D": the tree
\* lists the first page a second time at its end (as page organisation does
\* when an action list repeats a page); l = "Z": the root has no Count entry;
\* l = "K": the root's Kids is not an array, so it lists no page and its Count
\* is 0
BuildDoc(l, pgs, slack) ==
    LET np == Len(pgs)
        root == RootId(l, np)
        rootKids == CASE l = "N" /\ np > 0 -> <<InnerId>> \o PageIdSeq(l, np, 2)
                      [] l = "D" /\ np > 0 -> PageIdSeq(l, np, 1) \o <<PageId(l, np, 1)>>
                      [] l = "K" -> <<>>
                      [] OTHER -> PageIdSeq(l, np, 1)
        rootCount == IF l = "D" /\ np > 0 THEN np + 1 ELSE IF l = "K" THEN 0 ELSE np
        rootObj == [PagesObj(rootKids, rootCount, Nil) EXCEPT
                       !.Count = IF l = "Z" THEN None ELSE @,
                       !.KidsArray = (l # "K")]
        parentOf(k) == IF l = "N" /\ k = 1 THEN InnerId ELSE root
        pairs == {<<CatId(l, np), CatalogObj(root)>>,
                  <<root, rootObj>>}
                 \cup {<<PageId(l, np, k),
                         PageObj(parentOf(k), pgs[k].Rotate, ContId(l, np, k), pgs[k].body)>>
                       : k \in 1..np}
                 \cup {<<ContId(l, np, k), StreamObj(pgs[k].cbody)>> : k \in 1..np}
                 \cup (IF l = "N" /\ np > 0
                       THEN {<<InnerId, PagesObj(<<PageId(l, np, 1)>>, 1, root)>>}
                       ELSE {})
        top == CHOOSE m \in {p[1] : p \in pairs} : \A q \in pairs : q[1] <= m
    IN  [objects |-> ToFun(pairs), max_id |-> top + slack, Root |-> CatId(l, np)]

\* page k of input number tag: body tag*100 + k, content body tag*100 + 50 + k
PageSpec(tag, k, rot) == [body |-> tag * 100 + k, cbody |-> tag * 100 + 50 + k, Rotate |-> rot]

MkDoc(tag, l, np, slack) == BuildDoc(l, [k \in 1..np |-> PageSpec(tag, k, None)], slack)

-----------------------------------------------------------------------------
(* lopdf operations called by lib.rs *)

\* Document::get_pages: the Page leaves in depth-first Kids order, numbered from 1
RECURSIVE WalkKids(_, _, _)
WalkKids(objs, kids, depth) ==
    IF kids = <<>> THEN <<>>
    ELSE LET k == Head(kids)
             here == IF k \notin DOMAIN objs THEN <<>>
                     ELSE IF objs[k].type = "Page" THEN <<k>>
                     ELSE IF objs[k].type = "Pages" /\ depth < DepthLimit
                          THEN WalkKids(objs, objs[k].Kids, depth + 1)
                          ELSE <<>>
         IN  here \o WalkKids(objs, Tail(kids), depth)

PagesRootOf(d) ==
    IF d.Root \in DOMAIN d.objects /\ IsDict(d.objects[d.Root])
    THEN d.objects[d.Root].Pages
    ELSE Nil

GetPages(d) ==
    LET r == PagesRootOf(d)
    IN  IF r \in DOMAIN d.objects /\ IsDict(d.objects[r])
        THEN WalkKids(d.objects, d.objects[r].Kids, 0)
        ELSE <<>>

\* Document::renumber_objects_with(starting_id): the objects, in ascending id
\* order, get the ids starting_id, starting_id + 1, ...; every reference is
\* rewritten; max_id becomes the last id handed out
RenumberedId(ids, start, id) == start + Cardinality({j \in ids : j < id})

RenumberObjectsWith(d, start) ==
    LET ids == DOMAIN d.objects
        new(id) == RenumberedId(ids, start, id)
        ref(r) == IF r \in ids THEN new(r) ELSE r
        fix(o) == [o EXCEPT !.Pages = ref(@), !.Parent = ref(@), !.Contents = ref(@),
                            !.Kids = [i \in DOMAIN @ |-> ref(@[i])]]
    IN  [objects |-> ToFun({<<new(id), fix(d.objects[id])>> : id \in ids}),
         max_id |-> start + Cardinality(ids) - 1,
         Root |-> ref(d.Root)]

\* NewObjectId without the max_id += 1
NewObjectIdStale(d) == d.max_id

\* Document::new_object_id: max_id += 1
NewObjectId(d) == d.max_id + 1

\* for (id, obj) in doc.objects { final_doc.objects.insert(id, obj) }
InsertAll(dstObjs, srcObjs) ==
    [i \in DOMAIN dstObjs \cup DOMAIN srcObjs |->
        IF i \in DOMAIN srcObjs THEN srcObjs[i] ELSE dstObjs[i]]

Refs(o) == ({o.Pages, o.Parent, o.Contents} \ {Nil}) \cup Range(o.Kids)

RECURSIVE Reach(_, _, _)
Reach(objs, seen, frontier) ==
    IF frontier = {} THEN seen
    ELSE LET nxt == UNION {Refs(objs[i]) : i \in frontier \cap DOMAIN objs}
         IN  Reach(objs, seen \cup frontier, nxt \ (seen \cup frontier))

\* Document::prune_objects: drop what the trailer does not reach
PruneObjects(d) ==
    LET keep == Reach(d.objects, {}, {d.Root} \ {Nil}) \cap DOMAIN d.objects
    IN  [d EXCEPT !.objects = [i \in keep |-> d.objects[i]]]

-----------------------------------------------------------------------------
(* AppError, AppResult and load_pdf *)

\* AppError (lib.rs:16-26) with the text its Display gives: the prefix of the
\* variant, then the wrapped message
IoError(e) == [kind |-> "Io", msg |-> <<"IO error: ", e>>]
PdfError(e) == [kind |-> "Pdf", msg |-> <<"PDF error: ", e>>]
ValidationError(m) == [kind |-> "Validation", msg |-> <<"Validation error: ", m>>]
PathError(m) == [kind |-> "Path", msg |-> <<"Path error: ", m>>]
NoError == [kind |-> "", msg |-> <<>>]

\* AppResult<T>; the variable result holds <<>> until the command returns
Running == <<>>
Ok(v) == <<[ok |-> TRUE, value |-> v, err |-> NoError]>>
Err(e) == <<[ok |-> FALSE, value |-> <<>>, err |-> e]>>

\* What the file system and the parser make of one path: whether it is a
\* file, the outcome of File::open, of Mmap::map, of Document::load_mem, of
\* find_start_xref on the bytes and of Document::load_from on bytes + patch.
\* A stage that is never reached keeps its default.
FileStates ==
    {f \in [is_file : BOOLEAN, open : {"ok", "NotFound", "PermissionDenied"},
            mmap : {"ok", "InvalidInput"}, load_mem : {"ok", "Header"},
            start_xref : {None, Some(116)}, load_from : {"ok", "Xref"}] :
        /\ f.is_file <=> f.open # "NotFound"
        /\ f.open # "ok" => f.mmap = "ok"
        /\ (f.open # "ok" \/ f.mmap # "ok") => (f.load_mem = "ok" /\ f.start_xref = None)
        /\ (f.load_mem = "ok" \/ f.start_xref = None) => f.load_from = "ok"}

GoodFile ==
    [is_file |-> TRUE, open |-> "ok", mmap |-> "ok", load_mem |-> "ok",
     start_xref |-> None, load_from |-> "ok"]

\* one entry of the side-effect history
Effect(k, i, v, o) == [kind |-> k, input |-> i, value |-> v, ok |-> o]

\* LoadPdf that hands back the error of the retry when the retry fails
LoadPdfRetryError(f, d) ==
    LET r(o, dd, e, c) == [ok |-> o, doc |-> dd, err |-> e, calls |-> c]
        c1 == <<<<"open", f.open = "ok">>>>
        c2 == Append(c1, <<"mmap", f.mmap = "ok">>)
        c3 == Append(c2, <<"load_mem", f.load_mem = "ok">>)
        c4 == Append(c3, <<"find_start_xref", f.start_xref # None>>)
        c5 == Append(c4, <<"load_from", f.load_from = "ok">>)
    IN  IF f.open # "ok" THEN r(FALSE, EmptyDoc, IoError(f.open), c1)
        ELSE IF f.mmap # "ok" THEN r(FALSE, EmptyDoc, IoError(f.mmap), c2)
        ELSE IF f.load_mem = "ok" THEN r(TRUE, d, NoError, c3)
        ELSE IF f.start_xref = None THEN r(FALSE, EmptyDoc, PdfError(f.load_mem), c4)
        ELSE IF f.load_from = "ok" THEN r(TRUE, d, NoError, c5)
        ELSE r(FALSE, EmptyDoc, PdfError(f.load_from), c5)

\* load_pdf (lib.rs:192-218) on a path in state f whose bytes hold document d:
\* the result, and the calls made with their outcome
LoadPdf(f, d) ==
    LET r(o, dd, e, c) == [ok |-> o, doc |-> dd, err |-> e, calls |-> c]
        c1 == <<<<"open", f.open = "ok">>>>
        c2 == Append(c1, <<"mmap", f.mmap = "ok">>)
        c3 == Append(c2, <<"load_mem", f.load_mem = "ok">>)
        c4 == Append(c3, <<"find_start_xref", f.start_xref # None>>)
        c5 == Append(c4, <<"load_from", f.load_from = "ok">>)
    IN  IF f.open # "ok" THEN r(FALSE, EmptyDoc, IoError(f.open), c1)
        ELSE IF f.mmap # "ok" THEN r(FALSE, EmptyDoc, IoError(f.mmap), c2)
        ELSE IF f.load_mem = "ok" THEN r(TRUE, d, NoError, c3)
        ELSE IF f.start_xref = None THEN r(FALSE, EmptyDoc, PdfError(f.load_mem), c4)
        ELSE IF f.load_from = "ok" THEN r(TRUE, d, NoError, c5)
        ELSE r(FALSE, EmptyDoc, PdfError(f.load_mem), c5)

\* the calls of one load_pdf, as history entries for input number i
LoadEffects(i, calls) == [j \in DOMAIN calls |-> Effect(calls[j][1], i, 0, calls[j][2])]

\* Document::save as the k-th save of the command: File::create, then the
\* write of the bytes; env names the save that fails, if any, and how
SaveOutcome(e, k) ==
    IF e.fail_at = k /\ e.fail_what = "create"
    THEN [ok |-> FALSE, err |-> IoError("PermissionDenied"),
          effects |-> <<Effect("create", 0, k, FALSE)>>]
    ELSE IF e.fail_at = k /\ e.fail_what = "write"
    THEN [ok |-> FALSE, err |-> IoError("StorageFull"),
          effects |-> <<Effect("create", 0, k, TRUE), Effect("write", 0, k, FALSE)>>]
    ELSE [ok |-> TRUE, err |-> NoError,
          effects |-> <<Effect("create", 0, k, TRUE), Effect("write", 0, k, TRUE)>>]

\* the lopdf error of the lookups at lib.rs:699-701
CatalogError(objs, catalog_id) ==
    IF catalog_id = Nil THEN PdfError("DictKey")
    ELSE IF catalog_id \notin DOMAIN objs THEN PdfError("ObjectNotFound")
    ELSE IF ~IsDict(objs[catalog_id]) THEN PdfError("Type")
    ELSE PdfError("DictKey")

-----------------------------------------------------------------------------
(* merge_pdfs *)

\* steps 1-4 of the loop body (lib.rs:683-716) for one further input
MergeStep(dst, src) ==
    LET d == RenumberObjectsWith(src, dst.max_id)
        pages == GetPages(d)
        objs == InsertAll(dst.objects, d.objects)
        catalog_id == dst.Root
        catalogOk == catalog_id # Nil /\ catalog_id \in DOMAIN objs
                     /\ IsDict(objs[catalog_id]) /\ objs[catalog_id].Pages # Nil
        pages_id == objs[catalog_id].Pages
        touch == pages_id \in DOMAIN objs /\ IsDict(objs[pages_id])
        pd == objs[pages_id]
        pd1 == IF pd.Count # None THEN [pd EXCEPT !.Count = Some(@[1] + Len(pages))] ELSE pd
        pd2 == IF pd.KidsArray THEN [pd1 EXCEPT !.Kids = @ \o pages] ELSE pd1
    IN  [err |-> ~catalogOk,
         src_ids |-> DOMAIN d.objects,
         pages |-> pages,
         doc |-> [objects |-> IF catalogOk /\ touch THEN [objs EXCEPT ![pages_id] = pd2]
                              ELSE objs,
                  max_id |-> d.max_id,
                  Root |-> dst.Root]]

MergeStart ==
    /\ op \in {"merge", "split_merge"}
    /\ pc = "merge_start"
    /\ IF paths = <<>>
       THEN /\ pc' = "error"
            /\ result' = Err(ValidationError("No files to merge."))
            /\ UNCHANGED <<final_doc, idx, log>>
       ELSE LET l == LoadPdf(files[1], paths[1])
            IN  /\ log' = log \o LoadEffects(1, l.calls)
                /\ IF l.ok
                   THEN /\ final_doc' = l.doc
                        /\ idx' = 1
                        /\ pc' = "merge_loop"
                        /\ UNCHANGED result
                   ELSE /\ pc' = "error"
                        /\ result' = Err(l.err)
                        /\ UNCHANGED <<final_doc, idx>>
    /\ UNCHANGED <<op, build, mode, page_count, chunk_ranges, doc, doc0, paths, docs_pages,
                   dst_ids, src_ids, saved, saved_paths, rotations, actions, part_layout,
                   files, env, trailer>>
    /\ UNCHANGED repairVars

\* MergeAppend that skips an input it cannot load and goes on with the next
MergeAppendSkipUnloadable ==
    /\ op \in {"merge", "split_merge"}
    /\ pc = "merge_loop"
    /\ idx < Len(paths)
    /\ LET l == LoadPdf(files[idx + 1], paths[idx + 1])
           r == MergeStep(final_doc, l.doc)
       IN  /\ log' = log \o LoadEffects(idx + 1, l.calls)
           /\ idx' = idx + 1
           /\ IF ~l.ok
              THEN UNCHANGED <<pc, result, final_doc, dst_ids, src_ids>>
              ELSE /\ final_doc' = r.doc
                   /\ dst_ids' = DOMAIN final_doc.objects
                   /\ src_ids' = r.src_ids
                   /\ IF r.err
                      THEN /\ pc' = "error"
                           /\ result' = Err(CatalogError(r.doc.objects, final_doc.Root))
                      ELSE /\ pc' = "merge_loop"
                           /\ UNCHANGED result
    /\ UNCHANGED <<op, build, mode, page_count, chunk_ranges, doc, doc0, paths, docs_pages,
                   saved, saved_paths, rotations, actions, part_layout, files, env,
                   trailer>>
    /\ UNCHANGED repairVars

MergeAppend ==
    /\ op \in {"merge", "split_merge"}
    /\ pc = "merge_loop"
    /\ idx < Len(paths)
    /\ LET l == LoadPdf(files[idx + 1], paths[idx + 1])
           r == MergeStep(final_doc, l.doc)
       IN  /\ log' = log \o LoadEffects(idx + 1, l.calls)
           /\ IF ~l.ok
              THEN /\ pc' = "error"
                   /\ result' = Err(l.err)
                   /\ UNCHANGED <<final_doc, dst_ids, src_ids, idx>>
              ELSE /\ final_doc' = r.doc
                   /\ dst_ids' = DOMAIN final_doc.objects
                   /\ src_ids' = r.src_ids
                   /\ idx' = idx + 1
                   /\ IF r.err
                      THEN /\ pc' = "error"
                           /\ result' = Err(CatalogError(r.doc.objects, final_doc.Root))
                      ELSE /\ pc' = "merge_loop"
                           /\ UNCHANGED result
    /\ UNCHANGED <<op, build, mode, page_count, chunk_ranges, doc, doc0, paths, docs_pages,
                   saved, saved_paths, rotations, actions, part_layout, files, env,
                   trailer>>
    /\ UNCHANGED repairVars

MergeSave ==
    /\ op \in {"merge", "split_merge"}
    /\ pc = "merge_loop"
    /\ idx = Len(paths)
    /\ LET w == SaveOutcome(env, 1)
       IN  /\ log' = log \o w.effects
           /\ IF w.ok
              THEN /\ saved' = final_doc
                   /\ result' = Ok(<<>>)
                   /\ pc' = "done"
              ELSE /\ result' = Err(w.err)
                   /\ pc' = "error"
                   /\ UNCHANGED saved
    /\ UNCHANGED <<op, build, mode, page_count, chunk_ranges, doc, doc0, paths, final_doc,
                   idx, docs_pages, dst_ids, src_ids, saved_paths, rotations, actions,
                   part_layout, files, env, trailer>>
    /\ UNCHANGED repairVars

-----------------------------------------------------------------------------
(* mix_pdfs *)

MaxLen(ss) == IF ss = <<>> THEN 0
              ELSE CHOOSE m \in {Len(ss[j]) : j \in DOMAIN ss} :
                       \A j \in DOMAIN ss : Len(ss[j]) <= m

\* the inner loop at lib.rs:769-773 for round i (0-based)
RECURSIVE InterleaveRound(_, _, _)
InterleaveRound(dp, i, j) ==
    IF j > Len(dp) THEN <<>>
    ELSE (IF i < Len(dp[j]) THEN <<dp[j][i + 1]>> ELSE <<>>) \o InterleaveRound(dp, i, j + 1)

RECURSIVE InterleaveFrom(_, _, _)
InterleaveFrom(dp, i, max_pages) ==
    IF i >= max_pages THEN <<>>
    ELSE InterleaveRound(dp, i, 1) \o InterleaveFrom(dp, i + 1, max_pages)

Interleave(dp) == InterleaveFrom(dp, 0, MaxLen(dp))

\* "Update all pages to point to this new parent" (lib.rs:780-784, 1097-1101)
SetParents(objs, ids, root_id) ==
    [i \in DOMAIN objs |->
        IF i \in Range(ids) /\ IsDict(objs[i]) THEN [objs[i] EXCEPT !.Parent = root_id]
        ELSE objs[i]]

\* steps 3-8 of mix_pdfs (lib.rs:776-808)
MixBuild(d, final_page_ids) ==
    LET pages_root_id == NewObjectId(d)
        objs1 == SetParents(d.objects, final_page_ids, pages_root_id)
        pages_dict == PagesObj(final_page_ids, Len(final_page_ids), Nil)
        objs2 == InsertAll(objs1, ToFun({<<pages_root_id, pages_dict>>}))
        catalog_id == pages_root_id + 1
        objs3 == InsertAll(objs2, ToFun({<<catalog_id, CatalogObj(pages_root_id)>>}))
    IN  PruneObjects([objects |-> objs3, max_id |-> catalog_id, Root |-> catalog_id])

MixStart ==
    /\ op = "mix"
    /\ pc = "mix_start"
    /\ IF paths = <<>>
       THEN /\ pc' = "error"
            /\ result' = Err(ValidationError("No files to mix."))
            /\ UNCHANGED <<final_doc, idx, docs_pages>>
       ELSE /\ final_doc' = DocumentNew
            /\ docs_pages' = <<>>
            /\ idx' = 0
            /\ pc' = "mix_loop"
            /\ UNCHANGED result
    /\ UNCHANGED <<op, build, mode, page_count, chunk_ranges, doc, doc0, paths,
                   dst_ids, src_ids, saved, saved_paths, rotations, actions, part_layout,
                   files, env, log, trailer>>
    /\ UNCHANGED repairVars

MixCombine ==
    /\ op = "mix"
    /\ pc = "mix_loop"
    /\ idx < Len(paths)
    /\ LET l == LoadPdf(files[idx + 1], paths[idx + 1])
           d == RenumberObjectsWith(l.doc, final_doc.max_id)
       IN  /\ log' = log \o LoadEffects(idx + 1, l.calls)
           /\ IF ~l.ok
              THEN /\ pc' = "error"
                   /\ result' = Err(l.err)
                   /\ UNCHANGED <<final_doc, docs_pages, dst_ids, src_ids, idx>>
              ELSE /\ final_doc' = [objects |-> InsertAll(final_doc.objects, d.objects),
                                    max_id |-> d.max_id,
                                    Root |-> final_doc.Root]
                   /\ docs_pages' = Append(docs_pages, GetPages(d))
                   /\ dst_ids' = DOMAIN final_doc.objects
                   /\ src_ids' = DOMAIN d.objects
                   /\ idx' = idx + 1
                   /\ UNCHANGED <<pc, result>>
    /\ UNCHANGED <<op, build, mode, page_count, chunk_ranges, doc, doc0, paths,
                   saved, saved_paths, rotations, actions, part_layout, files, env,
                   trailer>>
    /\ UNCHANGED repairVars

MixFinish ==
    /\ op = "mix"
    /\ pc = "mix_loop"
    /\ idx = Len(paths)
    /\ final_doc' = MixBuild(final_doc, Interleave(docs_pages))
    /\ LET w == SaveOutcome(env, 1)
       IN  /\ log' = log \o w.effects
           /\ IF w.ok
              THEN /\ saved' = final_doc'
                   /\ result' = Ok(<<>>)
                   /\ pc' = "done"
              ELSE /\ result' = Err(w.err)
                   /\ pc' = "error"
                   /\ UNCHANGED saved
    /\ UNCHANGED <<op, build, mode, page_count, chunk_ranges, doc, doc0, paths, idx,
                   docs_pages, dst_ids, src_ids, saved_paths, rotations, actions,
                   part_layout, files, env, trailer>>
    /\ UNCHANGED repairVars

-----------------------------------------------------------------------------
(* split_pdf *)

PartLayouts == {"A", "B", "C", "S"}

\* Document::extract_pages(&pages, &page_range): a new document holding the
\* pages numbered from..to of d, in order, with what they reference
ExtractPages(d, pages, from, to, l) ==
    LET spec(k) ==
            LET o == d.objects[pages[from + k - 1]]
            IN  [body |-> o.body,
                 cbody |-> IF o.Contents \in DOMAIN d.objects
                           THEN d.objects[o.Contents].body ELSE 0,
                 Rotate |-> o.Rotate]
    IN  BuildDoc(l, [k \in 1..(to - from + 1) |-> spec(k)], 0)

\* format!("{}_part{}.pdf", stem, i + 1) joined to the output directory
OutName(k) == [stem |-> "document", part |-> k, ext |-> ".pdf"]

\* the paths pushed to saved_paths: one per completed save, in order
WrittenNames(lg) ==
    LET w == SelectSeq(lg, LAMBDA e : e.kind = "write" /\ e.ok)
    IN  [j \in DOMAIN w |-> OutName(w[j].value)]

\* SplitStart without the test for a document of zero pages
SplitStartNoPageTest ==
    /\ op = "split_merge"
    /\ pc = "split_start"
    /\ idx' = 0
    /\ saved_paths' = <<>>
    /\ IF ~files[1].is_file
       THEN /\ pc' = "error"
            /\ result' = Err(PathError("Path is not a file."))
            /\ UNCHANGED <<page_count, chunk_ranges, log>>
       ELSE LET l == LoadPdf(files[1], doc)
                n == ToU32(Len(GetPages(l.doc)))
                r == calculate_chunks(mode, n, build)
            IN  /\ log' = log \o LoadEffects(1, l.calls)
                /\ IF ~l.ok
                   THEN /\ pc' = "error"
                        /\ result' = Err(l.err)
                        /\ UNCHANGED <<page_count, chunk_ranges>>
                   ELSE /\ page_count' = n
                        /\ IF ~env.out_dir_ok
                           THEN /\ pc' = "error"
                                /\ result' = Err(PathError("Output path is not a directory."))
                                /\ UNCHANGED chunk_ranges
                           ELSE /\ chunk_ranges' = r.ranges
                                /\ pc' = IF r.panicked THEN "panicked"
                                         ELSE IF r.diverged THEN "diverges"
                                         ELSE "split_loop"
                                /\ UNCHANGED result
    /\ UNCHANGED <<op, build, mode, doc, doc0, paths, final_doc, docs_pages, dst_ids,
                   src_ids, saved, rotations, actions, part_layout, files, env, trailer>>
    /\ UNCHANGED repairVars

\* lib.rs:523-551: the checks, the load and the chunk computation
SplitStart ==
    /\ op = "split_merge"
    /\ pc = "split_start"
    /\ idx' = 0
    /\ saved_paths' = <<>>
    /\ IF ~files[1].is_file
       THEN /\ pc' = "error"
            /\ result' = Err(PathError("Path is not a file."))
            /\ UNCHANGED <<page_count, chunk_ranges, log>>
       ELSE LET l == LoadPdf(files[1], doc)
                n == ToU32(Len(GetPages(l.doc)))
                r == calculate_chunks(mode, n, build)
            IN  /\ log' = log \o LoadEffects(1, l.calls)
                /\ IF ~l.ok
                   THEN /\ pc' = "error"
                        /\ result' = Err(l.err)
                        /\ UNCHANGED <<page_count, chunk_ranges>>
                   ELSE /\ page_count' = n
                        /\ IF n = U32Zero
                           THEN /\ pc' = "error"
                                /\ result' = Err(ValidationError("PDF has no pages."))
                                /\ UNCHANGED chunk_ranges
                           ELSE IF ~env.out_dir_ok
                           THEN /\ pc' = "error"
                                /\ result' = Err(PathError("Output path is not a directory."))
                                /\ UNCHANGED chunk_ranges
                           ELSE /\ chunk_ranges' = r.ranges
                                /\ pc' = IF r.panicked THEN "panicked"
                                         ELSE IF r.diverged THEN "diverges"
                                         ELSE "split_loop"
                                /\ UNCHANGED result
    /\ UNCHANGED <<op, build, mode, doc, doc0, paths, final_doc, docs_pages, dst_ids,
                   src_ids, saved, rotations, actions, part_layout, files, env, trailer>>
    /\ UNCHANGED repairVars

\* SplitChunk that gives up when the progress notification is not delivered
SplitChunkAwaitEmit ==
    /\ op = "split_merge"
    /\ pc = "split_loop"
    /\ idx < Len(chunk_ranges)
    /\ \E delivered \in BOOLEAN :
          LET start == FromU32(chunk_ranges[idx + 1][1])
              end == FromU32(chunk_ranges[idx + 1][2])
              emit == Effect("emit", 0, idx, delivered)
              part_doc == ExtractPages(doc, GetPages(doc), start, end, part_layout)
              w == SaveOutcome(env, idx + 1)
          IN  IF ~delivered \/ (env.fail_at = idx + 1 /\ env.fail_what = "extract")
              THEN /\ log' = Append(log, emit)
                   /\ result' = Err(PdfError("ObjectNotFound"))
                   /\ pc' = "error"
                   /\ UNCHANGED <<saved_paths, idx>>
              ELSE /\ log' = Append(log, emit) \o w.effects
                   /\ IF w.ok
                      THEN /\ saved_paths' = Append(saved_paths, part_doc)
                           /\ idx' = idx + 1
                           /\ UNCHANGED <<pc, result>>
                      ELSE /\ result' = Err(w.err)
                           /\ pc' = "error"
                           /\ UNCHANGED <<saved_paths, idx>>
    /\ UNCHANGED <<op, build, mode, page_count, chunk_ranges, doc, doc0, paths,
                   final_doc, docs_pages, dst_ids, src_ids, saved, rotations, actions,
                   part_layout, files, env, trailer>>
    /\ UNCHANGED repairVars

\* one iteration of the loop at lib.rs:580-595
SplitChunk ==
    /\ op = "split_merge"
    /\ pc = "split_loop"
    /\ idx < Len(chunk_ranges)
    /\ \E delivered \in BOOLEAN :
          LET start == FromU32(chunk_ranges[idx + 1][1])
              end == FromU32(chunk_ranges[idx + 1][2])
              emit == Effect("emit", 0, idx, delivered)
              part_doc == ExtractPages(doc, GetPages(doc), start, end, part_layout)
              w == SaveOutcome(env, idx + 1)
          IN  IF env.fail_at = idx + 1 /\ env.fail_what = "extract"
              THEN /\ log' = Append(log, emit)
                   /\ result' = Err(PdfError("ObjectNotFound"))
                   /\ pc' = "error"
                   /\ UNCHANGED <<saved_paths, idx>>
              ELSE /\ log' = Append(log, emit) \o w.effects
                   /\ IF w.ok
                      THEN /\ saved_paths' = Append(saved_paths, part_doc)
                           /\ idx' = idx + 1
                           /\ UNCHANGED <<pc, result>>
                      ELSE /\ result' = Err(w.err)
                           /\ pc' = "error"
                           /\ UNCHANGED <<saved_paths, idx>>
    /\ UNCHANGED <<op, build, mode, page_count, chunk_ranges, doc, doc0, paths,
                   final_doc, docs_pages, dst_ids, src_ids, saved, rotations, actions,
                   part_layout, files, env, trailer>>
    /\ UNCHANGED repairVars

SplitFinish ==
    /\ op = "split_merge"
    /\ pc = "split_loop"
    /\ idx = Len(chunk_ranges)
    /\ \E delivered \in BOOLEAN :
          log' = Append(log, Effect("emit", 0, Len(chunk_ranges), delivered))
    /\ result' = Ok(WrittenNames(log))
    /\ pc' = "split_done"
    /\ UNCHANGED <<op, build, mode, page_count, chunk_ranges, doc, doc0, paths, final_doc,
                   idx, docs_pages, dst_ids, src_ids, saved, saved_paths, rotations,
                   actions, part_layout, files, env, trailer>>
    /\ UNCHANGED repairVars

\* the caller hands the returned part paths, in order, to merge_pdfs
MergeParts ==
    /\ op = "split_merge"
    /\ pc = "split_done"
    /\ paths' = saved_paths
    /\ files' = [j \in DOMAIN saved_paths |-> GoodFile]
    /\ env' = [env EXCEPT !.fail_at = 0]
    /\ result' = Running
    /\ log' = <<>>
    /\ pc' = "merge_start"
    /\ UNCHANGED <<op, build, mode, page_count, chunk_ranges, doc, doc0, final_doc, idx,
                   docs_pages, dst_ids, src_ids, saved, saved_paths, rotations, actions,
                   part_layout, trailer>>
    /\ UNCHANGED repairVars

-----------------------------------------------------------------------------
(* calculate_chunks as called on its own *)

CalculateChunks ==
    /\ op = "chunks"
    /\ pc = "chunks_start"
    /\ LET r == calculate_chunks(mode, page_count, build)
       IN  /\ chunk_ranges' = r.ranges
           /\ pc' = IF r.panicked THEN "panicked"
                    ELSE IF r.diverged THEN "diverges"
                    ELSE "done"
    /\ UNCHANGED <<op, build, mode, page_count, doc, doc0, paths, final_doc, idx,
                   docs_pages, dst_ids, src_ids, saved, saved_paths, rotations, actions,
                   part_layout>>
    /\ UNCHANGED ioVars
    /\ UNCHANGED repairVars

-----------------------------------------------------------------------------
(* rotate_pdf_pages *)

I32Max == (2^30 - 1) * 2 + 1
I32Min == (0 - I32Max) - 1

\* a + b on i32: overflow panics in a debug build and wraps in a release build
AddI32(a, b) ==
    IF b > 0 /\ a > I32Max - b
    THEN [val |-> (a - I32Max - 1) + (b - I32Max - 1), overflow |-> TRUE]
    ELSE IF b < 0 /\ a < I32Min - b
    THEN [val |-> (a + I32Max + 1) + (b + I32Max + 1), overflow |-> TRUE]
    ELSE [val |-> a + b, overflow |-> FALSE]

\* Rust's %: the remainder has the sign of the dividend
RemI32(x, m) == IF x >= 0 \/ x % m = 0 THEN x % m ELSE (x % m) - m

\* lib.rs:899-902
NewRotation(current_rotation, angle_change, b) ==
    LET s == AddI32(current_rotation, angle_change)
        r == RemI32(s.val, 360)
    IN  [panicked |-> b = "debug" /\ s.overflow,
         val |-> IF r < 0 THEN r + 360 ELSE r]

\* lib.rs:888-895
CurrentRotation(o) == IF IsDict(o) /\ o.Rotate # None THEN o.Rotate[1] ELSE 0

\* the loop at lib.rs:884-909 from page number k on
RECURSIVE RotateFrom(_, _, _, _, _)
RotateFrom(objs, pages, rmap, k, b) ==
    IF k > Len(pages) THEN [panicked |-> FALSE, objects |-> objs]
    ELSE IF k \notin DOMAIN rmap THEN RotateFrom(objs, pages, rmap, k + 1, b)
    ELSE LET page_id == pages[k]
             nr == NewRotation(CurrentRotation(objs[page_id]), rmap[k], b)
         IN  IF nr.panicked THEN [panicked |-> TRUE, objects |-> objs]
             ELSE RotateFrom([objs EXCEPT ![page_id].Rotate = Some(nr.val)],
                             pages, rmap, k + 1, b)

Deltas == {0 - 90, 450, I32Max}

RotationMaps == UNION {[S -> Deltas] : S \in SUBSET (1..(MaxDocPages + 1))}

RotatePdfPages ==
    /\ op = "rotate"
    /\ pc = "rotate_ready"
    /\ Len(rotations) < MaxRotations
    /\ \E rmap \in RotationMaps :
          LET r == RotateFrom(doc.objects, GetPages(doc), rmap, 1, build)
          IN  /\ rotations' = Append(rotations, rmap)
              /\ IF r.panicked
                 THEN /\ pc' = "panicked"
                      /\ UNCHANGED doc
                 ELSE /\ doc' = [doc EXCEPT !.objects = r.objects]
                      /\ UNCHANGED pc
    /\ UNCHANGED <<op, build, mode, page_count, chunk_ranges, doc0, paths, final_doc, idx,
                   docs_pages, dst_ids, src_ids, saved, saved_paths, actions, part_layout>>
    /\ UNCHANGED ioVars
    /\ UNCHANGED repairVars

-----------------------------------------------------------------------------
(* apply_pdf_organisation *)

Existing(n) == [type |-> "existing", page_number |-> n]
Blank == [type |-> "blank", page_number |-> 0]

\* AddObject without the max_id += 1: the new object lands on max_id + 1 but
\* the id handed back is the old max_id
AddObjectNoAdvance(d, o) ==
    [d EXCEPT !.objects = InsertAll(@, ToFun({<<d.max_id + 1, o>>}))]

\* Document::add_object: max_id += 1, insert under the new id
AddObject(d, o) ==
    [d EXCEPT !.max_id = @ + 1,
              !.objects = InsertAll(@, ToFun({<<d.max_id + 1, o>>}))]

\* ResolveActions with the absence test lost: an Existing action whose page
\* number is absent inserts a blank page instead of being dropped
RECURSIVE ResolveActionsNoDrop(_, _, _, _)
ResolveActionsNoDrop(d, pages, acts, new_page_ids) ==
    IF acts = <<>> THEN [doc |-> d, new_page_ids |-> new_page_ids]
    ELSE LET action == Head(acts)
         IN  IF action.type = "existing" /\ action.page_number \in DOMAIN pages
             THEN ResolveActionsNoDrop(d, pages, Tail(acts),
                      Append(new_page_ids, pages[action.page_number]))
             ELSE LET d1 == AddObject(d, StreamObj(0))
                      d2 == AddObject(d1, PageObj(Nil, None, d1.max_id, 0))
                  IN  ResolveActionsNoDrop(d2, pages, Tail(acts),
                          Append(new_page_ids, d2.max_id))

\* the loop at lib.rs:1067-1090
RECURSIVE ResolveActions(_, _, _, _)
ResolveActions(d, pages, acts, new_page_ids) ==
    IF acts = <<>> THEN [doc |-> d, new_page_ids |-> new_page_ids]
    ELSE LET action == Head(acts)
         IN  IF action.type = "existing"
             THEN ResolveActions(d, pages, Tail(acts),
                      IF action.page_number \in DOMAIN pages
                      THEN Append(new_page_ids, pages[action.page_number])
                      ELSE new_page_ids)
             ELSE LET d1 == AddObject(d, StreamObj(0))
                      content_id == d1.max_id
                      d2 == AddObject(d1, PageObj(Nil, None, content_id, 0))
                      page_id == d2.max_id
                  IN  ResolveActions(d2, pages, Tail(acts), Append(new_page_ids, page_id))

\* lib.rs:1048-1124: the document handed to save, or the error of step 6
OrganiseResult(d, acts) ==
    LET r == ResolveActions(d, GetPages(d), acts, <<>>)
        ids == r.new_page_ids
        pages_root_id == NewObjectId(r.doc)
        objs1 == SetParents(r.doc.objects, ids, pages_root_id)
        objs2 == InsertAll(objs1, ToFun({<<pages_root_id, PagesObj(ids, Len(ids), Nil)>>}))
        catalog_id == d.Root
        objs3 == IF catalog_id \in DOMAIN objs2 /\ IsDict(objs2[catalog_id])
                 THEN [objs2 EXCEPT ![catalog_id].Pages = pages_root_id]
                 ELSE objs2
    IN  [err |-> catalog_id = Nil,
         doc |-> PruneObjects([objects |-> objs3, max_id |-> pages_root_id,
                               Root |-> catalog_id])]

ApplyPdfOrganisation ==
    /\ op = "organise"
    /\ pc = "organise_start"
    /\ LET r == OrganiseResult(doc, actions)
       IN  IF r.err
           THEN pc' = "error" /\ UNCHANGED saved
           ELSE pc' = "done" /\ saved' = r.doc
    /\ UNCHANGED <<op, build, mode, page_count, chunk_ranges, doc, doc0, paths, final_doc,
                   idx, docs_pages, dst_ids, src_ids, saved_paths, rotations, actions,
                   part_layout>>
    /\ UNCHANGED ioVars
    /\ UNCHANGED repairVars

-----------------------------------------------------------------------------
(* protect_pdf *)

HexDigit(v) == <<"0", "1", "2", "3", "4", "5", "6", "7", "8", "9",
                 "a", "b", "c", "d", "e", "f">>[v + 1]

\* format!("{:0nx}", t): t in hexadecimal, padded with zeros to n digits
RECURSIVE HexPadded(_, _)
HexPadded(t, n) ==
    IF n = 0 THEN <<>> ELSE Append(HexPadded(t \div 16, n - 1), HexDigit(t % 16))

\* NewIdArray with an identifier of its own in the second slot
NewIdArrayTwoStamps(timestamp) ==
    <<HexPadded(timestamp, 32), HexPadded(timestamp + 1, 32)>>

\* lib.rs:838-845: the identifier made from the timestamp, in both slots
NewIdArray(timestamp) ==
    LET id_bytes == HexPadded(timestamp, 32)
    IN  <<id_bytes, id_bytes>>

\* EncryptionState::try_from reads the first string of the trailer's ID array
EncryptionStateOk(t) == t.ID # None /\ t.ID[1] # <<>>

\* Document::encrypt: the streams are enciphered
Encipher(d) ==
    [d EXCEPT !.objects = [i \in DOMAIN @ |->
        IF @[i].type = "Stream" THEN [@[i] EXCEPT !.body = 0 - @ - 1] ELSE @[i]]]

ProtectPdf ==
    /\ op = "protect"
    /\ pc = "protect_start"
    /\ LET l == LoadPdf(files[1], doc)
           t1 == IF trailer.ID = None
                 THEN [trailer EXCEPT !.ID = Some(NewIdArray(env.now))]
                 ELSE trailer
           owner_pwd == IF env.owner_password = None THEN env.user_password
                        ELSE env.owner_password[1]
           w == SaveOutcome(env, 1)
       IN  IF ~l.ok
           THEN /\ log' = log \o LoadEffects(1, l.calls)
                /\ result' = Err(l.err)
                /\ pc' = "error"
                /\ UNCHANGED saved
           ELSE IF ~EncryptionStateOk(t1)
           THEN /\ log' = log \o LoadEffects(1, l.calls)
                /\ result' = Err(ValidationError("Failed to create encryption state"))
                /\ pc' = "error"
                /\ UNCHANGED saved
           ELSE IF t1.Encrypt
           THEN /\ log' = log \o LoadEffects(1, l.calls)
                /\ result' = Err(ValidationError("Failed to encrypt PDF"))
                /\ pc' = "error"
                /\ UNCHANGED saved
           ELSE /\ log' = log \o LoadEffects(1, l.calls) \o w.effects
                /\ IF w.ok
                   THEN /\ saved' = [objects |-> Encipher(l.doc).objects,
                                     max_id |-> l.doc.max_id,
                                     Root |-> l.doc.Root,
                                     ID |-> t1.ID,
                                     Encrypt |-> [owner_password |-> owner_pwd,
                                                  user_password |-> env.user_password,
                                                  key_length |-> 128]]
                        /\ result' = Ok(<<>>)
                        /\ pc' = "done"
                   ELSE /\ result' = Err(w.err)
                        /\ pc' = "error"
                        /\ UNCHANGED saved
    /\ UNCHANGED <<op, build, mode, page_count, chunk_ranges, doc, doc0, paths, final_doc,
                   idx, docs_pages, dst_ids, src_ids, saved_paths, rotations, actions,
                   part_layout, files, env, trailer>>
    /\ UNCHANGED repairVars

-----------------------------------------------------------------------------
(* u64 and i64 arithmetic.  A 64-bit value is kept as four 16-bit limbs,    *)
(* most significant first; an i64 is the two's complement reading of them.  *)

U64Zero == <<0, 0, 0, 0>>

\* for k below 2^31
ToU64(k) == <<0, 0, k \div Base, k % Base>>

\* for values below 2^31
FromU64(a) == a[3] * Base + a[4]

U64Add(a, b) ==
    LET s4 == a[4] + b[4]
        s3 == a[3] + b[3] + (s4 \div Base)
        s2 == a[2] + b[2] + (s3 \div Base)
        s1 == a[1] + b[1] + (s2 \div Base)
    IN  [val |-> <<s1 % Base, s2 % Base, s3 % Base, s4 % Base>>, overflow |-> s1 >= Base]

U64Sub(a, b) ==
    LET d4 == a[4] - b[4]
        d3 == a[3] - b[3] - (IF d4 < 0 THEN 1 ELSE 0)
        d2 == a[2] - b[2] - (IF d3 < 0 THEN 1 ELSE 0)
        d1 == a[1] - b[1] - (IF d2 < 0 THEN 1 ELSE 0)
    IN  [val |-> <<(d1 + Base) % Base, (d2 + Base) % Base, (d3 + Base) % Base,
                   (d4 + Base) % Base>>,
         overflow |-> d1 < 0]

U64Lt(a, b) ==
    \E i \in 1..4 : a[i] < b[i] /\ \A j \in 1..(i - 1) : a[j] = b[j]

\* u64::saturating_sub
SaturatingSub(a, b) == IF U64Lt(a, b) THEN U64Zero ELSE U64Sub(a, b).val

I64Negative(a) == a[1] >= Base \div 2

\* i64 + i64: overflow when both operands have the sign the sum has not
I64Add(a, b) ==
    LET s == U64Add(a, b).val
    IN  [val |-> s,
         overflow |-> I64Negative(a) = I64Negative(b) /\ I64Negative(s) # I64Negative(a)]

\* acc * 10 + d, as checked_mul and checked_add do it inside str::parse::<u64>
MulAdd10(a, d) ==
    LET t4 == a[4] * 10 + d
        t3 == a[3] * 10 + (t4 \div Base)
        t2 == a[2] * 10 + (t3 \div Base)
        t1 == a[1] * 10 + (t2 \div Base)
    IN  [val |-> <<t1 % Base, t2 % Base, t3 % Base, t4 % Base>>, overflow |-> t1 >= Base]

-----------------------------------------------------------------------------
(* find_start_xref.  A byte is its value 0..255; positions count from 0.    *)

eof_marker == <<37, 37, 69, 79, 70>>
startxref_marker == <<115, 116, 97, 114, 116, 120, 114, 101, 102>>

Lookback == 128

\* u8::is_ascii_digit
IsAsciiDigit(b) == 48 <= b /\ b <= 57

\* &s[from..to]: a panic unless from <= to <= s.len()
Slice(s, from, to) ==
    [ok |-> from <= to /\ to <= Len(s),
     val |-> IF from <= to /\ to <= Len(s) THEN SubSeq(s, from + 1, to) ELSE <<>>]

\* the positions at which s.windows(marker.len()) yields marker
Matches(s, marker) ==
    {i \in 0..(Len(s) - Len(marker)) : SubSeq(s, i + 1, i + Len(marker)) = marker}

\* RPosition giving the first match instead of the last
RPositionFirstMatch(s, marker) ==
    LET hits == Matches(s, marker)
    IN  IF hits = {} THEN None ELSE Some(CHOOSE i \in hits : \A j \in hits : i <= j)

\* s.windows(marker.len()).rposition(|w| w == marker)
RPosition(s, marker) ==
    LET hits == Matches(s, marker)
    IN  IF hits = {} THEN None ELSE Some(CHOOSE i \in hits : \A j \in hits : j <= i)

\* offset_str.parse::<u64>().ok(): None on an empty string and on overflow
RECURSIVE ParseFrom(_, _)
ParseFrom(acc, digits) ==
    IF digits = <<>> THEN Some(acc)
    ELSE LET nx == MulAdd10(acc, Head(digits) - 48)
         IN  IF nx.overflow THEN None ELSE ParseFrom(nx.val, Tail(digits))

ParseU64(digits) == IF digits = <<>> THEN None ELSE ParseFrom(U64Zero, digits)

\* lib.rs:220-242; panicked tells that a slice was taken out of range
find_start_xref(d) ==
    LET eof == RPosition(d, eof_marker)
    IN  IF eof = None THEN [panicked |-> FALSE, offset |-> None]
        ELSE
        LET eof_pos == eof[1]
            lookback == IF eof_pos > Lookback THEN eof_pos - Lookback ELSE 0
            search_zone == Slice(d, lookback, eof_pos)
            s == RPosition(search_zone.val, startxref_marker)
        IN  IF ~search_zone.ok THEN [panicked |-> TRUE, offset |-> None]
            ELSE IF s = None THEN [panicked |-> FALSE, offset |-> None]
            ELSE
            LET digit_start == lookback + s[1] + Len(startxref_marker)
                digit_zone == Slice(d, digit_start, eof_pos)
                offset_str == SelectSeq(digit_zone.val, IsAsciiDigit)
            IN  IF ~digit_zone.ok THEN [panicked |-> TRUE, offset |-> None]
                ELSE [panicked |-> FALSE, offset |-> ParseU64(offset_str)]

\* the call at lib.rs:206
FindStartXref ==
    /\ op = "xref"
    /\ pc = "xref_start"
    /\ LET r == find_start_xref(data)
       IN  IF r.panicked
           THEN pc' = "panicked" /\ UNCHANGED offset
           ELSE pc' = "done" /\ offset' = Some(r.offset)
    /\ UNCHANGED <<op, build, mode, page_count, chunk_ranges, doc, doc0, paths, final_doc,
                   idx, docs_pages, dst_ids, src_ids, saved, saved_paths, rotations,
                   actions, part_layout, data, reader, call>>
    /\ UNCHANGED ioVars

-----------------------------------------------------------------------------
(* SeekingChain.  usize is 64 bits wide, as u64 is; the buffer of a read    *)
(* is given by its length, the bytes copied into it are kept in call.       *)

\* SeekingChain::new
SeekingChainNew(mmap, patch) == [mmap |-> mmap, patch |-> patch, pos |-> U64Zero]

\* SeekFrom::Start(n), SeekFrom::Current(n), SeekFrom::End(n)
SeekFrom(style, n) == [style |-> style, n |-> n]

Min(a, b) == IF a <= b THEN a ELSE b

\* Read whose second copy starts at the head of the patch whatever pos is
ReadPatchFromHead(r, len) ==
    LET mmap_len == ToU64(Len(r.mmap))
        inMmap == U64Lt(r.pos, mmap_len)
        take1 == IF inMmap THEN Min(FromU64(U64Sub(mmap_len, r.pos).val), len) ELSE 0
        from1 == IF inMmap THEN FromU64(r.pos) ELSE 0
        part1 == Slice(r.mmap, from1, from1 + take1)
        pos1 == U64Add(r.pos, ToU64(take1)).val
        inPatch == take1 < len /\ 0 < Len(r.patch)
        take2 == IF inPatch THEN Min(Len(r.patch), len - take1) ELSE 0
        part2 == Slice(r.patch, 0, take2)
    IN  [panicked |-> ~part1.ok \/ ~part2.ok,
         reader |-> [r EXCEPT !.pos = U64Add(pos1, ToU64(take2)).val],
         n |-> take1 + take2,
         bytes |-> part1.val \o part2.val]

\* <SeekingChain as Read>::read with a buffer of len bytes (lib.rs:150-171)
Read(r, len) ==
    LET mmap_len == ToU64(Len(r.mmap))
        inMmap == U64Lt(r.pos, mmap_len)
        take1 == IF inMmap THEN Min(FromU64(U64Sub(mmap_len, r.pos).val), len) ELSE 0
        from1 == IF inMmap THEN FromU64(r.pos) ELSE 0
        part1 == Slice(r.mmap, from1, from1 + take1)
        pos1 == U64Add(r.pos, ToU64(take1)).val
        patch_pos == SaturatingSub(pos1, mmap_len)
        inPatch == take1 < len /\ U64Lt(patch_pos, ToU64(Len(r.patch)))
        from2 == IF inPatch THEN FromU64(patch_pos) ELSE 0
        take2 == IF inPatch THEN Min(Len(r.patch) - from2, len - take1) ELSE 0
        part2 == Slice(r.patch, from2, from2 + take2)
    IN  [panicked |-> ~part1.ok \/ ~part2.ok,
         reader |-> [r EXCEPT !.pos = U64Add(pos1, ToU64(take2)).val],
         n |-> take1 + take2,
         bytes |-> part1.val \o part2.val]

\* <SeekingChain as Seek>::seek (lib.rs:175-187); the i64 additions panic on
\* overflow in a debug build and wrap in a release build
Seek(r, style, b) ==
    LET total_len == ToU64(Len(r.mmap) + Len(r.patch))
        new_pos == CASE style.style = "Start" -> [val |-> style.n, overflow |-> FALSE]
                     [] style.style = "Current" -> I64Add(r.pos, style.n)
                     [] style.style = "End" -> I64Add(total_len, style.n)
    IN  IF b = "debug" /\ new_pos.overflow
        THEN [panicked |-> TRUE, reader |-> r, ret |-> Running]
        ELSE IF I64Negative(new_pos.val)
        THEN [panicked |-> FALSE, reader |-> r,
              ret |-> Err([kind |-> "InvalidInput", msg |-> "negative seek"])]
        ELSE [panicked |-> FALSE, reader |-> [r EXCEPT !.pos = new_pos.val],
              ret |-> Ok(new_pos.val)]

\* the seeks of the calls: to small positions, by small steps forth and back,
\* and to and by the ends of the u64 and i64 ranges
SeekStyles ==
    LET u64_max == <<Base - 1, Base - 1, Base - 1, Base - 1>>
        i64_max == <<Base \div 2 - 1, Base - 1, Base - 1, Base - 1>>
        i64_min == <<Base \div 2, 0, 0, 0>>
        small == {ToU64(k) : k \in 0..(2 * MaxBytes + 1)}
        signed == {ToU64(k) : k \in 0..(MaxBytes + 1)}
                  \cup {U64Sub(U64Zero, ToU64(k)).val : k \in 1..(MaxBytes + 1)}
                  \cup {i64_min, i64_max}
    IN  {SeekFrom("Start", n) : n \in small \cup {i64_max, i64_min, u64_max}}
        \cup {SeekFrom("Current", n) : n \in signed}
        \cup {SeekFrom("End", n) : n \in signed}

ReaderRead ==
    /\ op = "chain"
    /\ pc = "chain_ready"
    /\ call.count < MaxCalls
    /\ \E len \in 0..MaxBuf :
          LET r == Read(reader, len)
          IN  /\ reader' = r.reader
              /\ call' = [kind |-> "read", arg |-> len, before |-> reader, ret |-> Ok(r.n),
                          bytes |-> r.bytes, count |-> call.count + 1]
              /\ pc' = IF r.panicked THEN "panicked" ELSE pc
    /\ UNCHANGED <<op, build, mode, page_count, chunk_ranges, doc, doc0, paths, final_doc,
                   idx, docs_pages, dst_ids, src_ids, saved, saved_paths, rotations,
                   actions, part_layout, data, offset>>
    /\ UNCHANGED ioVars

ReaderSeek ==
    /\ op = "chain"
    /\ pc = "chain_ready"
    /\ call.count < MaxCalls
    /\ \E style \in SeekStyles :
          LET r == Seek(reader, style, build)
          IN  /\ reader' = r.reader
              /\ call' = [kind |-> "seek", arg |-> style, before |-> reader, ret |-> r.ret,
                          bytes |-> <<>>, count |-> call.count + 1]
              /\ pc' = IF r.panicked THEN "panicked" ELSE pc
    /\ UNCHANGED <<op, build, mode, page_count, chunk_ranges, doc, doc0, paths, final_doc,
                   idx, docs_pages, dst_ids, src_ids, saved, saved_paths, rotations,
                   actions, part_layout, data, offset>>
    /\ UNCHANGED ioVars

-----------------------------------------------------------------------------
(* Inputs and initial states *)

\* a trailer without ID and without Encrypt
NoTrailer == [ID |-> None, Encrypt |-> FALSE]

\* no failure on the output side
NoFail == [out_dir_ok |-> TRUE, fail_at |-> 0, fail_what |-> "extract"]

\* no reader and no call on it: the command does not come to a repair
NoReader == [mmap |-> <<>>, patch |-> <<>>, pos |-> <<0, 0, 0, 0>>]
NoCall == [kind |-> "new", arg |-> <<>>, before |-> NoReader, ret |-> <<>>,
           bytes |-> <<>>, count |-> 0]

InitState(o, p, b, m, pgc, d, ps, acts, pl, fs, e, tid, dat, rd) ==
    /\ data = dat
    /\ offset = Running
    /\ reader = rd
    /\ call = NoCall
    /\ op = o
    /\ pc = p
    /\ build = b
    /\ mode = m
    /\ page_count = pgc
    /\ chunk_ranges = <<>>
    /\ doc = d
    /\ doc0 = d
    /\ paths = ps
    /\ final_doc = EmptyDoc
    /\ idx = 0
    /\ docs_pages = <<>>
    /\ dst_ids = {}
    /\ src_ids = {}
    /\ saved = EmptyDoc
    /\ saved_paths = <<>>
    /\ rotations = <<>>
    /\ actions = acts
    /\ part_layout = pl
    /\ files = fs
    /\ env = e
    /\ result = Running
    /\ log = <<>>
    /\ trailer = tid

InitAll(o, p, b, m, pgc, d, ps, acts, pl, fs, e, tid) ==
    InitState(o, p, b, m, pgc, d, ps, acts, pl, fs, e, tid, <<>>, NoReader)

\* every input path holds a readable, well-formed file and nothing fails on
\* the output side
InitWith(o, p, b, m, pgc, d, ps, acts, pl) ==
    InitAll(o, p, b, m, pgc, d, ps, acts, pl,
            IF o = "split_merge" THEN <<GoodFile>> ELSE [j \in DOMAIN ps |-> GoodFile],
            NoFail, NoTrailer)

SmallModes == {EveryN(ToU32(n)) : n \in 0..MaxN} \cup {OnePerPage}

\* small page counts with every small mode, and chunk sizes and page counts
\* near the top of the u32 range
ChunkInputs ==
    {[mode |-> m, page_count |-> ToU32(p)] : m \in SmallModes, p \in 0..MaxPages}
    \cup {[mode |-> EveryN(U32MaxValue), page_count |-> U32One],
          [mode |-> EveryN(U32MaxValue), page_count |-> <<Base - 1, Base - 2>>],
          [mode |-> EveryN(<<5 * 2^13, 0>>), page_count |-> <<3 * 2^14, 0>>],
          [mode |-> EveryN(<<2^15, 0>>), page_count |-> <<3 * 2^14, 0>>]}

InitChunks ==
    \E b \in Builds, in \in ChunkInputs :
        InitWith("chunks", "chunks_start", b, in.mode, in.page_count, EmptyDoc, <<>>, <<>>, "A")

CombineLayouts == {"A", "B", "C", "S", "N"}

\* the documents an input path can hold: every layout with 0..MaxDocPages
\* pages, and those whose trailer Size leaves the highest number unused (a
\* flat or nested tree, a root with no Count, a root whose Kids is no array)
DocShapes(tag) ==
    {MkDoc(tag, l, np, 0) : l \in CombineLayouts, np \in 0..MaxDocPages}
    \cup {MkDoc(tag, l, np, 1) : l \in {"A", "N", "Z"}, np \in 0..MaxDocPages}
    \cup {MkDoc(tag, "K", 0, 1)}

PathLists ==
    UNION {{ps \in [1..k -> UNION {DocShapes(t) : t \in 1..k}] :
               \A i \in 1..k : ps[i] \in DocShapes(i)} : k \in 0..MaxDocs}

InitCombine ==
    \E o \in {"merge", "mix"}, ps \in PathLists :
        InitWith(o, IF o = "merge" THEN "merge_start" ELSE "mix_start", "release",
                 OnePerPage, U32Zero, EmptyDoc, ps, <<>>, "A")

\* merge and mix over inputs in every file state, with the save failing or not
SaveEnvs ==
    {NoFail} \cup {[out_dir_ok |-> TRUE, fail_at |-> 1, fail_what |-> w] :
                      w \in {"create", "write"}}

InitCombineIO ==
    \E o \in {"merge", "mix"}, k \in 0..MaxDocs, e \in SaveEnvs :
        \E fs \in [1..k -> FileStates] :
            InitAll(o, IF o = "merge" THEN "merge_start" ELSE "mix_start", "release",
                    OnePerPage, U32Zero, EmptyDoc, [i \in 1..k |-> MkDoc(i, "A", 1, 1)],
                    <<>>, "A", fs, e, NoTrailer)

\* split over a source in every file state, an output directory that exists
\* or not, and an extraction or a save that fails at some chunk or none
SplitEnvs ==
    {[out_dir_ok |-> o, fail_at |-> 0, fail_what |-> "extract"] : o \in BOOLEAN}
    \cup {[out_dir_ok |-> o, fail_at |-> k, fail_what |-> w] :
             o \in BOOLEAN, k \in 1..MaxPages, w \in {"extract", "create", "write"}}

InitSplit ==
    \E np \in 0..MaxPages, m \in SmallModes, f \in FileStates, e \in SplitEnvs :
        InitAll("split_merge", "split_start", "release", m, U32Zero, MkDoc(1, "A", np, 0),
                <<>>, <<>>, "A", <<f>>, e, NoTrailer)

\* protect: the trailer with or without an ID (two equal strings, two
\* different ones, an empty array), encrypted already or not; the clock, the
\* passwords and the outcome of the save
TrailerIds ==
    {None, Some(<<HexPadded(171, 4), HexPadded(171, 4)>>),
     Some(<<HexPadded(171, 4), HexPadded(205, 4)>>), Some(<<>>)}

ProtectEnvs ==
    {[out_dir_ok |-> TRUE, fail_at |-> e.fail_at, fail_what |-> e.fail_what, now |-> t,
      user_password |-> u, owner_password |-> o] :
        e \in SaveEnvs, t \in {0, 255, 2^30 + 7}, u \in {"", "user"},
        o \in {None, Some("owner")}}

InitProtect ==
    \E np \in 0..MaxDocPages, f \in FileStates, e \in ProtectEnvs, id \in TrailerIds,
       enc \in BOOLEAN :
        InitAll("protect", "protect_start", "release", OnePerPage, U32Zero,
                MkDoc(1, "A", np, 0), <<>>, <<>>, "A", <<f>>, e,
                [ID |-> id, Encrypt |-> enc])

InitSplitMerge ==
    \E l \in {"A", "N"}, np \in 0..MaxPages, m \in SmallModes, pl \in PartLayouts :
        InitWith("split_merge", "split_start", "release", m, U32Zero,
                 MkDoc(1, l, np, 0), <<>>, <<>>, pl)

\* documents to rotate: page 1 with or without a Rotate entry
RotateDocs ==
    {BuildDoc(l, [k \in 1..np |-> PageSpec(1, k, IF k = 1 THEN r ELSE None)], 0) :
        l \in {"A", "N", "D"}, np \in 1..MaxDocPages, r \in {None, Some(90)}}
    \cup {OrganiseResult(MkDoc(1, "A", 1, 0), <<Existing(1), Existing(1)>>).doc}

InitRotate ==
    \E b \in Builds, d \in RotateDocs :
        InitWith("rotate", "rotate_ready", b, OnePerPage, U32Zero, d, <<>>, <<>>, "A")

OrganiseDocs == {MkDoc(1, l, np, 0) : l \in {"A", "N", "D"}, np \in 0..MaxDocPages}

PageActions == {Blank} \cup {Existing(n) : n \in 0..(MaxDocPages + 1)}

ActionLists == UNION {[1..k -> PageActions] : k \in 0..MaxActions}

InitOrganise ==
    \E d \in OrganiseDocs, acts \in ActionLists :
        InitWith("organise", "organise_start", "release", OnePerPage, U32Zero, d, <<>>,
                 acts, "A")

\* bytes for find_start_xref: a prefix of pre spaces, the directives dir, a
\* line feed, the digit string ds (a negative entry stands for a space), line
\* feeds that put the last directive dist bytes before the last marker (none
\* if it is farther already), the markers eofs and the bytes tail
XrefData(pre, dir, ds, dist, eofs, tail) ==
    LET before == Len(startxref_marker) + 1 + Len(ds)
                  + (IF eofs = <<>> THEN 0 ELSE Len(eofs) - Len(eof_marker))
        gap == IF dist > before THEN dist - before ELSE 0
    IN  [i \in 1..pre |-> 32] \o dir \o <<10>>
        \o [i \in DOMAIN ds |-> IF ds[i] < 0 THEN 32 ELSE 48 + ds[i]]
        \o [i \in 1..gap |-> 10] \o eofs \o tail

\* inputs shorter than the markers, and inputs with zero to two directives,
\* digit strings (none, 0, 116, 007, "12 34", 5000000000, 2^64 - 1, 2^64, a
\* 23-digit number), the last directive next to the marker, just inside the
\* lookback window, at its far edge or one byte beyond, and zero to two
\* markers, the second next to the first or Lookback bytes after it
XrefInputs ==
    LET DigitStrings ==
            {<<>>, <<0>>, <<1, 1, 6>>, <<0, 0, 7>>, <<1, 2, 0 - 1, 3, 4>>,
             <<5, 0, 0, 0, 0, 0, 0, 0, 0, 0>>,
             <<1, 8, 4, 4, 6, 7, 4, 4, 0, 7, 3, 7, 0, 9, 5, 5, 1, 6, 1, 5>>,
             <<1, 8, 4, 4, 6, 7, 4, 4, 0, 7, 3, 7, 0, 9, 5, 5, 1, 6, 1, 6>>,
             [i \in 1..23 |-> 9]}
        Directives ==
            {<<>>, startxref_marker,
             startxref_marker \o <<10, 49, 10>> \o startxref_marker}
        EofMarkers ==
            {<<>>, eof_marker, eof_marker \o <<10>> \o eof_marker,
             eof_marker \o [i \in 1..Lookback |-> 10] \o eof_marker}
    IN  {SubSeq(eof_marker, 1, k) : k \in 0..Len(eof_marker)}
        \cup {SubSeq(startxref_marker, 1, k) : k \in 1..Len(startxref_marker)}
        \cup {SubSeq(eof_marker, 2, Len(eof_marker)), <<37>> \o eof_marker}
        \cup {XrefData(pre, dir, ds, dist, eofs, tail) :
                pre \in {0, 5, Lookback}, dir \in Directives, ds \in DigitStrings,
                dist \in {0, Lookback - 1, Lookback, Lookback + 1},
                eofs \in EofMarkers, tail \in {<<>>, <<10>>}}

InitXref ==
    \E d \in XrefInputs :
        InitState("xref", "xref_start", "release", OnePerPage, U32Zero, EmptyDoc, <<>>,
                  <<>>, "A", <<>>, NoFail, NoTrailer, d, NoReader)

\* a reader over a file of 0..MaxBytes bytes and a patch of 0..MaxBytes bytes
InitChain ==
    \E b \in Builds, m \in 0..MaxBytes, k \in 0..MaxBytes :
        InitState("chain", "chain_ready", b, OnePerPage, U32Zero, EmptyDoc, <<>>, <<>>,
                  "A", <<>>, NoFail, NoTrailer, [i \in 1..m |-> 10 + i],
                  SeekingChainNew([i \in 1..m |-> 10 + i], [i \in 1..k |-> 20 + i]))

Init ==
    \/ InitChain
    \/ InitChunks
    \/ InitXref
    \/ InitCombine
    \/ InitCombineIO
    \/ InitSplit
    \/ InitProtect
    \/ InitSplitMerge
    \/ InitRotate
    \/ InitOrganise

Next ==
    \/ CalculateChunks
    \/ MergeStart
    \/ MergeAppend
    \/ MergeSave
    \/ MixStart
    \/ MixCombine
    \/ MixFinish
    \/ SplitStart
    \/ SplitChunk
    \/ SplitFinish
    \/ MergeParts
    \/ RotatePdfPages
    \/ ApplyPdfOrganisation
    \/ ProtectPdf
    \/ FindStartXref
    \/ ReaderRead
    \/ ReaderSeek

Spec == Init /\ [][Next]_vars

NextChunks == CalculateChunks
SpecChunks == InitChunks /\ [][NextChunks]_vars

NextCombine == MergeStart \/ MergeAppend \/ MergeSave \/ MixStart \/ MixCombine \/ MixFinish
SpecCombine == InitCombine /\ [][NextCombine]_vars

NextSplitMerge ==
    SplitStart \/ SplitChunk \/ SplitFinish \/ MergeParts \/ MergeStart \/ MergeAppend
    \/ MergeSave
SpecSplitMerge == InitSplitMerge /\ [][NextSplitMerge]_vars

SpecCombineIO == InitCombineIO /\ [][NextCombine]_vars

NextSplit == SplitStart \/ SplitChunk \/ SplitFinish
SpecSplit == InitSplit /\ [][NextSplit]_vars

\* merge, mix and split with their file system
InitIO == InitCombineIO \/ InitSplit
NextIO == NextCombine \/ NextSplit
SpecIO == InitIO /\ [][NextIO]_vars

NextProtect == ProtectPdf
SpecProtect == InitProtect /\ [][NextProtect]_vars

SpecXref == InitXref /\ [][FindStartXref]_vars

NextChain == ReaderRead \/ ReaderSeek
SpecChain == InitChain /\ [][NextChain]_vars

NextRotate == RotatePdfPages
SpecRotate == InitRotate /\ [][NextRotate]_vars

NextOrganise == ApplyPdfOrganisation
SpecOrganise == InitOrganise /\ [][NextOrganise]_vars

\* the commands that allocate object numbers: merge, mix and organise
SpecRewrite == (InitCombine \/ InitOrganise) /\ [][NextCombine \/ NextOrganise]_vars

-----------------------------------------------------------------------------
(* Claims *)

IsPartition(r, pages) ==
    /\ Len(r) >= 1
    /\ r[1][1] = U32One
    /\ \A i \in 1..Len(r) : U32Leq(r[i][1], r[i][2])
    /\ \A i \in 1..(Len(r) - 1) :
          /\ ~U32Add(r[i][2], U32One).overflow
          /\ r[i + 1][1] = U32Add(r[i][2], U32One).val
    /\ r[Len(r)][2] = pages

\* C1: for every page count P >= 1 and every split mode, the ranges returned
\* by calculate_chunks partition [1, P]: the first starts at 1, every range
\* has start <= end, each next range starts at the previous end + 1, and the
\* last range ends at P.
C1_ChunksPartition ==
    (op = "chunks" /\ pc = "done" /\ page_count # U32Zero)
        => IsPartition(chunk_ranges, page_count)

\* C2: when merge or mix combines a source into the destination store, no
\* renumbered source id is already present in the destination, so nothing is
\* overwritten and the merged store holds |dst| + |src| objects.
C2_NoIdCollision ==
    (op \in {"merge", "mix"} /\ pc \in {"merge_loop", "mix_loop", "error"} /\ src_ids # {})
        => /\ src_ids \cap dst_ids = {}
           /\ Cardinality(DOMAIN final_doc.objects)
                  = Cardinality(dst_ids) + Cardinality(src_ids)


\* what a reader sees of a page: the body of the page object and the body of
\* the object its Contents reference resolves to
PageView(d, id) ==
    <<d.objects[id].body,
      IF d.objects[id].Contents \in DOMAIN d.objects
      THEN d.objects[d.objects[id].Contents].body ELSE Nil>>

Views(d) == LET pages == GetPages(d) IN [i \in DOMAIN pages |-> PageView(d, pages[i])]

RECURSIVE Concat(_)
Concat(ss) == IF ss = <<>> THEN <<>> ELSE Head(ss) \o Concat(Tail(ss))

\* round-robin order of the sources' pages: round 1 of every source that has
\* a first page, in input order, then round 2, ...
RoundRobin(vs) ==
    LET k == Len(vs)
        rounds == MaxLen(vs)
        slot(t) == [i |-> ((t - 1) \div k) + 1, s |-> ((t - 1) % k) + 1]
        present(t) == slot(t).i <= Len(vs[slot(t).s])
        slots == SelectSeq([t \in 1..(rounds * k) |-> t], present)
    IN  [j \in DOMAIN slots |-> vs[slot(slots[j]).s][slot(slots[j]).i]]

\* C3: mix of k documents lists the pages of its inputs in strict round-robin
\* order, every source page exactly once, c1 + ... + ck pages in all.
C3_MixRoundRobin ==
    (op = "mix" /\ pc = "done")
        => Views(saved) = RoundRobin([i \in DOMAIN paths |-> Views(paths[i])])

TopPages(d) == d.objects[PagesRootOf(d)]

\* C4: sequential merge appends each later document's pages, in its own page
\* order, to the end of the first document's top-level Kids and adds their
\* number to its Count; the merged pages are d1's followed by d2's, ..., dk's
\* and the existing Kids entries are neither removed nor reordered.
C4_MergeAppends ==
    (op = "merge" /\ pc \in {"done", "error"} /\ paths # <<>>)
        => /\ pc = "done"
           /\ Views(saved) = Concat([i \in DOMAIN paths |-> Views(paths[i])])
           /\ PagesRootOf(saved) = PagesRootOf(paths[1])
           /\ LET old == TopPages(paths[1])
                  new == TopPages(saved)
                  added == Len(Concat([i \in 1..(Len(paths) - 1) |-> GetPages(paths[i + 1])]))
              IN  /\ SubSeq(new.Kids, 1, Len(old.Kids)) = old.Kids
                  /\ Len(new.Kids) = Len(old.Kids) + added
                  /\ old.Count # None => new.Count = Some(old.Count[1] + added)

\* C5: splitting a P-page document in every-N mode and merging the parts in
\* chunk order yields a document with P pages whose k-th page is the original
\* k-th page.
C5_SplitMergeRoundTrip ==
    (op = "split_merge" /\ mode.kind = "EveryN" /\ paths # <<>> /\ pc \in {"done", "error"})
        => /\ pc = "done"
           /\ Len(GetPages(saved)) = FromU32(page_count)
           /\ Views(saved) = Views(doc)


DistinctPages(d) == Cardinality(Range(GetPages(d))) = Len(GetPages(d))

DeltaOf(rmap, k) == IF k \in DOMAIN rmap THEN rmap[k] ELSE 0

\* C6: rotation is additive modulo 360: rotating a page with Rotate r (0 when
\* absent) by d1 and then by d2 stores the same value as rotating once by
\* d1 + d2, namely (r + d1 + d2) mod 360, and the stored value lies in [0, 360).
C6_RotationAdditive ==
    (op = "rotate" /\ pc = "rotate_ready" /\ Len(rotations) = 2 /\ DistinctPages(doc0))
        => \A k \in DOMAIN GetPages(doc0) :
              (k \in DOMAIN rotations[1] /\ k \in DOMAIN rotations[2])
                  => LET id == GetPages(doc0)[k]
                         r == CurrentRotation(doc0.objects[id])
                         d1 == rotations[1][k]
                         d2 == rotations[2][k]
                         sum == AddI32(d1, d2)
                         stored == doc.objects[id].Rotate
                     IN  /\ stored = Some(((r % 360) + (d1 % 360) + (d2 % 360)) % 360)
                         /\ stored[1] \in 0..359
                         /\ ~sum.overflow => stored = Some(NewRotation(r, sum.val, build).val)

\* C7: rotate changes nothing but the Rotate entry of pages whose page number
\* is a key of the mapping: pages absent from the mapping keep their Rotate,
\* the page tree is unchanged, and a key that is no page number changes no
\* page and raises no error.
C7_RotateFrame ==
    (op = "rotate" /\ Len(rotations) = 1 /\ pc = "rotate_ready")
        => /\ DOMAIN doc.objects = DOMAIN doc0.objects
           /\ doc.Root = doc0.Root
           /\ doc.max_id = doc0.max_id
           /\ \A id \in DOMAIN doc0.objects :
                 [doc.objects[id] EXCEPT !.Rotate = doc0.objects[id].Rotate] = doc0.objects[id]
           /\ GetPages(doc) = GetPages(doc0)
           /\ \A k \in DOMAIN GetPages(doc0) :
                 k \notin DOMAIN rotations[1]
                     => doc.objects[GetPages(doc0)[k]].Rotate
                            = doc0.objects[GetPages(doc0)[k]].Rotate

\* the Pages nodes the catalog reaches through Pages/Kids
RECURSIVE TreeNodes(_, _, _)
TreeNodes(objs, ids, depth) ==
    LET nodes == {i \in ids \cap DOMAIN objs : objs[i].type = "Pages"}
    IN  IF nodes = {} \/ depth > DepthLimit THEN nodes
        ELSE nodes \cup TreeNodes(objs, UNION {Range(objs[i].Kids) : i \in nodes}, depth + 1)

Flat(d, L, old_ids) ==
    LET root == PagesRootOf(d)
    IN  /\ root \in DOMAIN d.objects
        /\ root \notin old_ids
        /\ d.objects[root].type = "Pages"
        /\ d.objects[root].Kids = L
        /\ d.objects[root].Count = Some(Len(L))
        /\ \A i \in DOMAIN L : L[i] \in DOMAIN d.objects /\ d.objects[L[i]].Parent = root
        /\ TreeNodes(d.objects, {root}, 0) = {root}

Resolved == ResolveActions(doc, GetPages(doc), actions, <<>>)

\* C8: after flatten (in reorganize and in mix) with ordered page list L the
\* catalog points at one newly allocated Pages node whose Kids is exactly L
\* and whose Count is the length of L, every page listed in L has its Parent
\* set to that node, and no node of the previous page tree is reachable from
\* the catalog through Pages/Kids.
C8_FlattenResult ==
    /\ (op = "organise" /\ pc = "done")
           => Flat(saved, Resolved.new_page_ids, DOMAIN Resolved.doc.objects)
    /\ (op = "mix" /\ pc = "done")
           => Flat(saved, Interleave(docs_pages), dst_ids \cup src_ids)

Present(a) == a.type = "blank" \/ a.page_number \in DOMAIN GetPages(doc)

BlankView == <<0, 0>>

ExpectedViews ==
    LET kept == SelectSeq(actions, Present)
    IN  [i \in DOMAIN kept |->
            IF kept[i].type = "blank" THEN BlankView ELSE Views(doc)[kept[i].page_number]]

CountOf(acts, Test(_)) == Cardinality({i \in DOMAIN acts : Test(acts[i])})

IsBlank(a) == a.type = "blank"
IsPresentExisting(a) == a.type = "existing" /\ a.page_number \in DOMAIN GetPages(doc)
IsAbsentExisting(a) == a.type = "existing" /\ a.page_number \notin DOMAIN GetPages(doc)

\* C9: reorganize resolves the action list in order: an Existing(n) whose n
\* is a page number of the input contributes that page, an Existing(n) whose
\* n is absent is dropped without error, a Blank contributes one new page;
\* the output order is the action order without the dropped actions and the
\* output page count is (Blank actions) + (Existing actions with a present n).
C9_OrganiseOrder ==
    (op = "organise" /\ pc # "organise_start")
        => /\ pc = "done"
           /\ Views(saved) = ExpectedViews
           /\ Len(GetPages(saved))
                  = CountOf(actions, IsBlank) + CountOf(actions, IsPresentExisting)

C9_Witness ==
    /\ op = "organise"
    /\ pc = "done"
    /\ CountOf(actions, IsBlank) >= 1
    /\ CountOf(actions, IsPresentExisting) >= 1
    /\ CountOf(actions, IsAbsentExisting) >= 1
    /\ Len(GetPages(saved)) = 2

\* positions of the output page list that hold a synthesized blank page
BlankAt(d) == {i \in DOMAIN GetPages(d) : d.objects[GetPages(d)[i]].body = 0}

\* C10: an action list of Blank actions only yields as many pages as actions;
\* every synthesized blank page gets a page id and a content-stream id that
\* are distinct from every id already in the store and from those of every
\* other blank page, so it shares no Contents with a kept page or other blank.
C10_BlankFresh ==
    (op = "organise" /\ pc = "done")
        => LET L == GetPages(saved)
               con(i) == saved.objects[L[i]].Contents
           IN  /\ CountOf(actions, IsBlank) = Len(actions) => Len(L) = Len(actions)
               /\ Cardinality(BlankAt(saved)) = CountOf(actions, IsBlank)
               /\ \A i \in BlankAt(saved) :
                     /\ L[i] \notin DOMAIN doc.objects
                     /\ con(i) \notin DOMAIN doc.objects
                     /\ con(i) \in DOMAIN saved.objects
                     /\ saved.objects[con(i)].type = "Stream"
                     /\ con(i) # L[i]
                     /\ \A j \in DOMAIN L :
                           j # i => /\ L[j] # L[i]
                                    /\ con(j) # con(i)
                                    /\ L[j] # con(i)

C10_Witness ==
    /\ op = "organise"
    /\ pc = "done"
    /\ Cardinality(BlankAt(saved)) >= 2
    /\ Cardinality(DOMAIN GetPages(saved) \ BlankAt(saved)) >= 1

-----------------------------------------------------------------------------
(* Errors, loading and side effects *)

Loadable(i) == LoadPdf(files[i], paths[i]).ok

\* input i has been parsed by a load recorded before position c of the history
LoadedBefore(lg, i, c) ==
    \E j \in 1..(c - 1) :
        lg[j].input = i /\ lg[j].kind \in {"load_mem", "load_from"} /\ lg[j].ok

\* the positions of the history at which the output path is created
Creates(lg) == {c \in DOMAIN lg : lg[c].kind = "create"}

Returned == result # Running
Failed == Returned /\ ~result[1].ok

\* C11: in merge and mix, when an input of the list cannot be opened or
\* parsed the call returns an error and the output path is never written; the
\* one save of the call comes only after every input has been loaded and
\* combined.
C11_NoOutputOnLoadFailure ==
    op \in {"merge", "mix"}
        => /\ Cardinality(Creates(log)) <= 1
           /\ \A c \in Creates(log) :
                 /\ idx = Len(paths)
                 /\ \A i \in DOMAIN paths : Loadable(i) /\ LoadedBefore(log, i, c)
           /\ (\E i \in DOMAIN paths : ~Loadable(i))
                 => /\ Creates(log) = {}
                    /\ saved = EmptyDoc
                    /\ Returned => Failed
                    /\ pc \in {"done", "error"} => Failed

C11_Witness ==
    /\ op \in {"merge", "mix"}
    /\ Len(paths) = 2
    /\ Loadable(1)
    /\ ~Loadable(2)
    /\ Failed
    /\ LoadedBefore(log, 1, Len(log) + 1)

\* the path string handed in for input i
PathName(i) == <<"a.pdf", "b.pdf", "c.pdf", "d.pdf">>[i]

\* the command ended in the load of input i: the last recorded call is a
\* failed call of that load
LoadFailedAt(i) ==
    /\ Failed
    /\ log # <<>>
    /\ log[Len(log)].input = i
    /\ ~log[Len(log)].ok
    /\ log[Len(log)].kind \in {"open", "mmap", "find_start_xref", "load_from"}

\* C12: when an input of a merge/mix list cannot be opened or parsed, the
\* error returned is a Path error (the input cannot be opened) or a Format
\* error (it cannot be parsed, even after repair), and it identifies the
\* offending input.
C12_LoadErrorNamesInput ==
    op \in {"merge", "mix"}
        => \A i \in DOMAIN paths :
              LoadFailedAt(i)
                  => LET e == result[1].err
                     IN  /\ e.kind = (IF log[Len(log)].kind \in {"open", "mmap"}
                                      THEN "Path" ELSE "Pdf")
                         /\ \E j \in DOMAIN e.msg : e.msg[j] = PathName(i)

\* the calls recorded for the load of input i, in order
CallsOf(lg, i) ==
    SelectSeq(lg, LAMBDA e : e.input = i /\ e.kind \notin {"create", "write", "emit"})

KindsOf(c) == [j \in DOMAIN c |-> c[j].kind]

\* C13: the loader tries the repair at most once and only after the standard
\* parse failed: a successful standard parse is returned without a repair; a
\* failed one with no cross-reference offset returns the original parse
\* error; with an offset the parse is retried exactly once on bytes + patch,
\* giving the retried document on success and the original parse error, not
\* the retry's, on failure.
C13_SingleRepairAttempt ==
    op \in {"merge", "mix"}
        => \A i \in DOMAIN paths :
              LET c == CallsOf(log, i)
                  f == files[i]
                  last == c[Len(c)]
              IN  c # <<>>
                  => /\ Cardinality({j \in DOMAIN c : c[j].kind = "load_mem"}) <= 1
                     /\ Cardinality({j \in DOMAIN c : c[j].kind = "load_from"}) <= 1
                     /\ (\E j \in DOMAIN c : c[j].kind = "load_mem" /\ c[j].ok)
                           => /\ last.kind = "load_mem"
                              /\ ~LoadFailedAt(i)
                     /\ (\E j \in DOMAIN c : c[j].kind = "load_from")
                           => /\ KindsOf(c) = <<"open", "mmap", "load_mem",
                                                "find_start_xref", "load_from">>
                              /\ ~c[3].ok
                              /\ c[4].ok
                     /\ (last.kind = "find_start_xref" /\ ~last.ok)
                           => /\ LoadFailedAt(i)
                              /\ result[1].err = PdfError(f.load_mem)
                     /\ (last.kind = "load_from" /\ last.ok) => ~LoadFailedAt(i)
                     /\ (last.kind = "load_from" /\ ~last.ok)
                           => /\ LoadFailedAt(i)
                              /\ result[1].err = PdfError(f.load_mem)
                              /\ result[1].err # PdfError(f.load_from)
                     /\ (op = "merge" /\ i = 1 /\ idx = 1 /\ pc = "merge_loop")
                           => final_doc = paths[1]

C13_Witness ==
    /\ op \in {"merge", "mix"}
    /\ \E i \in DOMAIN paths :
          /\ LoadFailedAt(i)
          /\ log[Len(log)].kind = "load_from"
    /\ \E i \in DOMAIN paths :
          LET c == CallsOf(log, i)
          IN  c # <<>> /\ c[Len(c)].kind = "load_from" /\ c[Len(c)].ok

\* the progress notifications of the history, in order
Emits(lg) == SelectSeq(lg, LAMBDA e : e.kind = "emit")

InSplit == op = "split_merge" /\ pc \in {"split_start", "split_loop", "split_done", "error"}

\* C14: a split into k chunks that all succeed emits exactly the progress
\* notifications 0, 1, ..., k-1, one before each chunk is extracted, and then
\* k; a notification that is not delivered neither aborts the split nor is
\* sent again, and notification i is emitted before the file of chunk i+1 is
\* written.
C14_ProgressOrder ==
    InSplit
        => LET em == Emits(log)
               k == Len(chunk_ranges)
           IN  /\ \A j \in DOMAIN em : em[j].value = j - 1
               /\ pc = "split_done"
                     => /\ Len(em) = k + 1
                        /\ log[Len(log)] = em[k + 1]
                        /\ Returned /\ ~Failed
               /\ \A j \in DOMAIN log :
                     /\ (log[j].kind = "emit" /\ log[j].value < k)
                           => IF j < Len(log)
                              THEN log[j + 1].kind = "create"
                                   /\ log[j + 1].value = log[j].value + 1
                              ELSE /\ Failed
                                   /\ env.fail_at = log[j].value + 1
                                   /\ env.fail_what = "extract"
                     /\ log[j].kind \in {"create", "write"}
                           => \E i \in 1..(j - 1) :
                                 log[i].kind = "emit" /\ log[i].value = log[j].value - 1

C14_Witness ==
    /\ InSplit
    /\ pc = "split_done"
    /\ Len(chunk_ranges) >= 2
    /\ \E j \in DOMAIN log : log[j].kind = "emit" /\ ~log[j].ok /\ log[j].value = 0
    /\ \E j \in DOMAIN log : log[j].kind = "emit" /\ log[j].ok

\* the chunk numbers whose file exists on disk: File::create succeeded
FilesOnDisk(lg) == {lg[j].value : j \in {i \in DOMAIN lg : lg[i].kind = "create" /\ lg[i].ok}}

\* the split stopped at a chunk: an extraction or a save failed
ChunkFailed ==
    /\ InSplit
    /\ Failed
    /\ env.fail_at \in 1..Len(chunk_ranges)
    /\ Emits(log) # <<>>

\* C16: split returns success only after every chunk has been extracted and
\* saved, with one path per chunk range in chunk order, the i-th named
\* <stem>_part<i>.pdf; when extraction or saving fails at a chunk the call
\* returns an error instead of a path list, writes no later chunk and leaves
\* no output of that call produced.
C16_SplitAllOrNothing ==
    InSplit
        => /\ (Returned /\ ~Failed)
                 => /\ result[1].value = [i \in 1..Len(chunk_ranges) |-> OutName(i)]
                    /\ FilesOnDisk(log) = 1..Len(chunk_ranges)
                    /\ \A j \in DOMAIN log : log[j].ok \/ log[j].kind = "emit"
           /\ ChunkFailed
                 => /\ result[1].value = <<>>
                    /\ \A c \in FilesOnDisk(log) : c <= env.fail_at
                    /\ FilesOnDisk(log) = {}

\* the same without the last conjunct: what is on disk after a failure is
\* not constrained
SplitStopsAtFailure ==
    InSplit
        => /\ (Returned /\ ~Failed)
                 => /\ result[1].value = [i \in 1..Len(chunk_ranges) |-> OutName(i)]
                    /\ FilesOnDisk(log) = 1..Len(chunk_ranges)
           /\ ChunkFailed
                 => /\ result[1].value = <<>>
                    /\ \A c \in FilesOnDisk(log) : c <= env.fail_at

\* nothing was written and no progress notification was emitted
NoOutputEffect(lg) == \A j \in DOMAIN lg : lg[j].kind \notin {"create", "write", "emit"}

SourceLoads == LoadPdf(files[1], doc).ok

\* C17: precondition failures are reported before any side effect: merge and
\* mix with an empty path list return a Validation error without loading an
\* input or writing the output; split returns a Path error when the source is
\* not a file or the output directory is not a directory and a Validation
\* error when the document has zero pages, each before any chunk file is
\* written and before any progress notification is emitted.
C17_PreconditionsFirst ==
    /\ (op \in {"merge", "mix"} /\ paths = <<>> /\ pc \notin {"merge_start", "mix_start"})
          => /\ Failed
             /\ result[1].err.kind = "Validation"
             /\ log = <<>>
             /\ saved = EmptyDoc
    /\ (InSplit /\ pc # "split_start" /\ ~files[1].is_file)
          => /\ Failed
             /\ result[1].err.kind = "Path"
             /\ log = <<>>
    /\ (InSplit /\ pc # "split_start" /\ files[1].is_file /\ SourceLoads
            /\ GetPages(doc) = <<>>)
          => /\ Failed
             /\ result[1].err.kind = "Validation"
             /\ NoOutputEffect(log)
    /\ (InSplit /\ pc # "split_start" /\ files[1].is_file /\ SourceLoads
            /\ GetPages(doc) # <<>> /\ ~env.out_dir_ok)
          => /\ Failed
             /\ result[1].err.kind = "Path"
             /\ NoOutputEffect(log)

C17_Witness ==
    /\ InSplit
    /\ Failed
    /\ result[1].err = PathError("Output path is not a directory.")
    /\ Len(GetPages(doc)) >= 2
    /\ log # <<>>

\* C15: protect on a document whose trailer lacks a file identifier writes
\* an output whose trailer has an identifier array of exactly two slots
\* holding byte-identical strings; when the trailer already has an
\* identifier, protect leaves it unchanged.
C15_ProtectIdentifier ==
    (op = "protect" /\ pc = "done")
        => /\ trailer.ID = None
                 => /\ saved.ID # None
                    /\ Len(saved.ID[1]) = 2
                    /\ saved.ID[1][1] = saved.ID[1][2]
                    /\ Len(saved.ID[1][1]) = 32
           /\ trailer.ID # None => saved.ID = trailer.ID

C15_Witness ==
    /\ op = "protect"
    /\ pc = "done"
    /\ trailer.ID = None
    /\ saved.ID = Some(<<HexPadded(255, 32), HexPadded(255, 32)>>)
    /\ GetPages(saved) # <<>>

\* the number of pages of the range <<start, end>>, when it fits a u32
SizeIs(rg, n) ==
    LET e == U32Add(rg[1], U32Sub(n, U32One).val)
    IN  ~e.overflow /\ e.val = rg[2]

\* r is the list of runs of N consecutive pages covering 1..P, the last run
\* holding what is left
IsRuns(r, N, P) ==
    /\ IsPartition(r, P)
    /\ \A i \in 1..(Len(r) - 1) : SizeIs(r[i], N)
    /\ \E m \in {r[Len(r)][2]} :
          LET size == U32Add(U32Sub(m, r[Len(r)][1]).val, U32One).val
          IN  U32Leq(U32One, size) /\ U32Leq(size, N)

\* C18: in EveryN mode with chunk size N >= 1 and P pages calculate_chunks
\* returns exactly ceil(P/N) ranges, the i-th being [(i-1)N + 1, min(iN, P)]:
\* every range but the last holds N pages and the last holds 1 to N pages;
\* n = 0 is treated as N = 1, and OnePerPage returns the P ranges [p, p].
C18_FixedSizeRuns ==
    (op = "chunks" /\ pc = "done")
        => LET N == U32Max(mode.n, U32One)
               P == page_count
               r == chunk_ranges
           IN  /\ (mode.kind = "EveryN" /\ P # U32Zero) => IsRuns(r, N, P)
               /\ (mode.kind = "EveryN" /\ P[1] = 0 /\ N[1] = 0)
                     => /\ Len(r) = (P[2] + N[2] - 1) \div N[2]
                        /\ \A i \in DOMAIN r :
                              /\ FromU32(r[i][1]) = (i - 1) * N[2] + 1
                              /\ FromU32(r[i][2])
                                    = (IF i * N[2] < P[2] THEN i * N[2] ELSE P[2])
               /\ mode.kind = "OnePerPage"
                     => r = [p \in 1..FromU32(P) |-> <<ToU32(p), ToU32(p)>>]

\* the same on inputs whose page count and chunk size are below 2^16
FixedSizeRunsSmall ==
    (page_count[1] = 0 /\ mode.n[1] = 0) => C18_FixedSizeRuns

\* the Pages nodes of d that the catalog reaches
NodesOf(d) == TreeNodes(d.objects, {PagesRootOf(d)} \ {Nil}, 0)

\* every Page a reachable Pages node lists names that node as its Parent
ParentsMatchKids(d) ==
    \A n \in NodesOf(d) : \A k \in Range(d.objects[n].Kids) :
        (k \in DOMAIN d.objects /\ d.objects[k].type = "Page")
            => d.objects[k].Parent = n

Rewritten == op \in {"merge", "mix", "organise"} /\ pc = "done"

\* the inputs leave a number unused below their trailer Size, so that the
\* renumbering of C2 overwrites nothing
NoCollision == \A i \in DOMAIN paths : paths[i].max_id \notin DOMAIN paths[i].objects

\* C19: after merge, mix and reorganize every Page listed in the Kids of a
\* Pages node reachable from the catalog has its Parent pointing at that same
\* node; the pages merge appends to the destination's top-level Kids have
\* Parent equal to the destination's top-level Pages node.
C19_ParentMatchesKids ==
    Rewritten => ParentsMatchKids(saved)

\* the same for merge alone on inputs where no identifier collides
MergeParentsNoCollision ==
    (op = "merge" /\ pc = "done" /\ NoCollision) => ParentsMatchKids(saved)

\* the same for mix alone on inputs where no identifier collides
MixParentsNoCollision ==
    (op = "mix" /\ pc = "done" /\ NoCollision) => ParentsMatchKids(saved)

\* the same for reorganize alone
OrganiseParents ==
    (op = "organise" /\ pc = "done") => ParentsMatchKids(saved)

\* the number of Page leaves below node n, counted as get_pages walks them
LeavesUnder(d, n) == Len(WalkKids(d.objects, d.objects[n].Kids, 0))

CountsMatch(d) == \A n \in NodesOf(d) : d.objects[n].Count = Some(LeavesUnder(d, n))

\* Count is right wherever an input has one
InputCountsOk(d) ==
    \A n \in NodesOf(d) : d.objects[n].Count \in {None, Some(LeavesUnder(d, n))}

\* every root of the inputs has an integer Count and an array Kids
PlainRoots ==
    \A i \in DOMAIN paths :
        LET r == PagesRootOf(paths[i])
        IN  paths[i].objects[r].Count # None /\ paths[i].objects[r].KidsArray

\* C20: after merge, mix and reorganize, the inputs' Counts being right,
\* Count on every Pages node reachable from the catalog equals the number of
\* Page leaves reachable beneath it through Kids, also when merge's
\* destination root has no integer Count or no array Kids, when the
\* destination tree is nested and when a reorganize action list repeats a page.
C20_CountMatchesLeaves ==
    (/\ Rewritten
     /\ \A i \in DOMAIN paths : InputCountsOk(paths[i])
     /\ op = "organise" => InputCountsOk(doc))
        => CountsMatch(saved)

\* the same for merge on inputs where no identifier collides
MergeCountsNoCollision ==
    (op = "merge" /\ pc = "done" /\ NoCollision) => CountsMatch(saved)

\* the same for merge where, besides, every root has a Count and an array Kids
MergeCountsPlain ==
    (op = "merge" /\ pc = "done" /\ NoCollision /\ PlainRoots) => CountsMatch(saved)

\* the same for merge where no identifier collides and every Pages node of
\* the inputs has its Count
MergeCountsWithCount ==
    (op = "merge" /\ pc = "done" /\ NoCollision
        /\ \A i \in DOMAIN paths : CountsMatch(paths[i]))
        => CountsMatch(saved)

\* the same for mix on inputs where no identifier collides
MixCountsNoCollision ==
    (op = "mix" /\ pc = "done" /\ NoCollision) => CountsMatch(saved)

\* the same for reorganize alone
OrganiseCounts ==
    (op = "organise" /\ pc = "done") => CountsMatch(saved)

\* C23: calculate_chunks terminates for every split mode, every u32 chunk
\* size and every u32 page count: start strictly increases on each iteration
\* and neither start + n - 1 nor end + 1 overflows 32 bits.
C23_ChunksTerminate ==
    (op = "chunks" /\ pc # "chunks_start")
        => /\ pc = "done"
           /\ mode.kind = "EveryN" =>
                 LET N == U32Max(mode.n, U32One)
                     r == chunk_ranges
                 IN  /\ \A i \in DOMAIN r :
                           /\ ~U32Add(r[i][1], N).overflow
                           /\ ~U32Add(r[i][2], U32One).overflow
                     /\ \A i \in 1..(Len(r) - 1) : U32Lt(r[i][1], r[i + 1][1])

\* the loop is left, by its exit or by a panic
ChunkLoopExits == op = "chunks" => pc # "diverges"

\* the same as C23 where n + page_count stays below 2^32
ChunksTerminateSmall ==
    ~U32Add(U32Max(mode.n, U32One), page_count).overflow => C23_ChunksTerminate

-----------------------------------------------------------------------------
(* The repair: find_start_xref and the reader *)

\* v divided by 10: [quot, rem]
DivMod10(v) ==
    LET c1 == v[1]
        c2 == (c1 % 10) * Base + v[2]
        c3 == (c2 % 10) * Base + v[3]
        c4 == (c3 % 10) * Base + v[4]
    IN  [quot |-> <<c1 \div 10, c2 \div 10, c3 \div 10, c4 \div 10>>, rem |-> c4 % 10]

\* the decimal digits of v, none for 0
RECURSIVE ToDecimal(_)
ToDecimal(v) ==
    IF v = U64Zero THEN <<>> ELSE ToDecimal(DivMod10(v).quot) \o <<DivMod10(v).rem>>

RECURSIVE StripZeros(_)
StripZeros(ds) == IF ds # <<>> /\ Head(ds) = 0 THEN StripZeros(Tail(ds)) ELSE ds

U64MaxDigits == <<1, 8, 4, 4, 6, 7, 4, 4, 0, 7, 3, 7, 0, 9, 5, 5, 1, 6, 1, 5>>

LexLeq(a, b) ==
    a = b \/ \E i \in DOMAIN a : a[i] < b[i] /\ \A j \in 1..(i - 1) : a[j] = b[j]

\* the number written by the digits ds is below 2^64
FitsU64(ds) ==
    LET s == StripZeros(ds)
    IN  Len(s) < Len(U64MaxDigits) \/ (Len(s) = Len(U64MaxDigits) /\ LexLeq(s, U64MaxDigits))

Largest(S) == CHOOSE i \in S : \A j \in S : j <= i

\* the directives lying wholly within the Lookback bytes before position e
InWindow(d, e) ==
    {j \in Matches(d, startxref_marker) :
        j + Len(startxref_marker) <= e /\ e - j <= Lookback}

\* the digits between position from (included) and position to (excluded)
DigitsBetween(d, from, to) ==
    LET ps == {i \in (from + 1)..to : IsAsciiDigit(d[i])}
    IN  [k \in 1..Cardinality(ps) |->
            d[CHOOSE i \in ps : Cardinality({j \in ps : j <= i}) = k] - 48]

\* the digits the claim reads, <<>> when a marker or the directive is missing
ClaimedDigits(d) ==
    IF Matches(d, eof_marker) = {} THEN <<>>
    ELSE LET e == Largest(Matches(d, eof_marker))
         IN  IF InWindow(d, e) = {} THEN <<>>
             ELSE DigitsBetween(d, Largest(InWindow(d, e)) + Len(startxref_marker), e)

\* C22: find_start_xref returns an offset exactly when the data holds %%EOF
\* and a startxref directive wholly within the 128 bytes before the last
\* %%EOF, followed by at least one digit before that marker, the digits
\* fitting 64 bits; it uses the last such directive, returns the decimal
\* value of the digits between it and the marker, and never indexes outside
\* the data.
C22_StartXref ==
    (op = "xref" /\ pc # "xref_start")
        => /\ pc = "done"
           /\ LET ds == ClaimedDigits(data)
                  r == offset[1]
              IN  /\ r # None <=> (ds # <<>> /\ FitsU64(ds))
                  /\ r # None => ToDecimal(r[1]) = StripZeros(ds)

\* an offset above 4 GB read from the last of two directives, which starts at
\* the far edge of the window before the second of two markers
C22_Witness ==
    /\ op = "xref" /\ pc = "done"
    /\ offset = Some(Some(<<0, 1, 10757, 61952>>))
    /\ Cardinality(Matches(data, eof_marker)) = 2
    /\ Cardinality(Matches(data, startxref_marker)) = 2
    /\ Largest(Matches(data, eof_marker)) - Largest(Matches(data, startxref_marker))
           = Lookback

\* the bytes the reader stands for
ChainBytes(r) == r.mmap \o r.patch

\* the i64 n is negative and base + n is below 0
BelowZero(base, n) == I64Negative(n) /\ U64Lt(base, U64Sub(U64Zero, n).val)

\* the seek asks for a position below 0
NegativeTarget(r, s) ==
    CASE s.style = "Start" -> FALSE
      [] s.style = "Current" -> BelowZero(r.pos, s.n)
      [] s.style = "End" -> BelowZero(ToU64(Len(ChainBytes(r))), s.n)

\* C21: the reader is a read-only cursor over original bytes ++ patch: a read
\* at position p into a buffer of length b returns min(b, max(0, total_len - p))
\* bytes equal to concat[p .. p+n) and advances the position by the number of
\* bytes returned, also across the boundary between original bytes and patch,
\* and returns 0 bytes at or past the end; a seek to a negative position fails
\* and leaves the position unchanged; neither the original bytes nor the
\* patch are ever modified.
C21_ReadOnlyCursor ==
    (op = "chain" /\ call.kind # "new")
        => LET r == call.before
               all == ChainBytes(r)
               total_len == Len(all)
               inside == U64Lt(r.pos, ToU64(total_len))
               p == IF inside THEN FromU64(r.pos) ELSE total_len
               n == Min(call.arg, total_len - p)
           IN  /\ reader.mmap = r.mmap /\ reader.patch = r.patch /\ reader.mmap = data
               /\ call.kind = "read"
                     => /\ pc # "panicked"
                        /\ call.ret = Ok(n)
                        /\ call.bytes = SubSeq(all, p + 1, p + n)
                        /\ reader.pos = U64Add(r.pos, ToU64(n)).val
               /\ (call.kind = "seek" /\ NegativeTarget(r, call.arg))
                     => /\ pc # "panicked"
                        /\ call.ret # Running /\ ~call.ret[1].ok
                        /\ reader.pos = r.pos

\* after an earlier call, a read that starts inside the original bytes and
\* ends inside the patch
C21_Witness ==
    /\ op = "chain" /\ call.kind = "read" /\ call.count > 1
    /\ U64Lt(U64Zero, call.before.pos)
    /\ U64Lt(call.before.pos, ToU64(Len(reader.mmap)))
    /\ Len(call.bytes) > Len(reader.mmap) - FromU64(call.before.pos)
    /\ U64Lt(reader.pos, ToU64(Len(ChainBytes(reader))))

-----------------------------------------------------------------------------
(* Allocation of object numbers *)

\* max_id is at least the number of every object of d
MaxIdCovers(d) == \A id \in DOMAIN d.objects : id <= d.max_id

\* the objects reorganize added to the document it loaded
AddedObjects == DOMAIN saved.objects \ DOMAIN doc.objects

\* reorganize added two objects per blank page and the Pages root, all of
\* them under numbers above the loaded document's
OrganiseFresh ==
    (op = "organise" /\ pc = "done")
        => /\ Cardinality(AddedObjects) = 2 * CountOf(actions, IsBlank) + 1
           /\ PagesRootOf(saved) \in AddedObjects
           /\ \A id \in AddedObjects :
                 id > doc.max_id /\ \A o \in DOMAIN doc.objects : o < id

\* the step that ends mix numbers the Pages root max_id + 1 and the Catalog
\* max_id + 2, numbers of no object of the store
MixFresh ==
    (op = "mix" /\ pc = "mix_loop" /\ pc' = "done")
        => LET root == PagesRootOf(saved')
               catalog == saved'.Root
           IN  /\ root = final_doc.max_id + 1
               /\ catalog = final_doc.max_id + 2
               /\ {root, catalog} \cap DOMAIN final_doc.objects = {}
               /\ {root, catalog} \subseteq DOMAIN saved'.objects

MaxIdGrows == op \in {"merge", "mix"} => final_doc'.max_id >= final_doc.max_id

\* C24: after each combine step of merge and mix the destination's max_id is
\* at least the number of every object in the merged store, and max_id never
\* decreases across steps; so the numbers mix allocates for the new Pages
\* root and Catalog (max_id + 1, max_id + 2) and those reorganize allocates
\* for blank pages, their content streams and the new Pages root are numbers
\* of no object already in the store and are pairwise distinct.
C24_FreshIdentifiers ==
    /\ [](op \in {"merge", "mix"} => MaxIdCovers(final_doc))
    /\ []OrganiseFresh
    /\ [][MaxIdGrows /\ MixFresh]_vars

\* a mix of MaxDocs files has ended and a reachable page lies below the new root
C24_Witness ==
    /\ op = "mix" /\ pc = "done" /\ Len(paths) = MaxDocs
    /\ saved.Root = final_doc.max_id
    /\ PagesRootOf(saved) = final_doc.max_id - 1
    /\ GetPages(saved) # <<>>

====
